---- MODULE Spec2Model ----
(***************************************************************************)
(* Model of iris/bin/sync_targets_bol.py: the daemon that reconciles the   *)
(* iris targets (users, teams) and the default escalation plans with the   *)
(* oncall roster.                                                          *)
(*                                                                         *)
(* Names (targets, plans) are sequences of the hyphen-separated parts of   *)
(* the python string: 'team1a-24x7-builtin' is <<"team1a","24x7",          *)
(* "builtin">>.  No part of the vocabulary contains a hyphen, so string    *)
(* concatenation with '-' is sequence concatenation, str.replace of        *)
(* '-part' is the removal of that part after the first position and        *)
(* str.split('-')[0] is the first part.                                    *)
(***************************************************************************)
EXTENDS Integers, Sequences, FiniteSets, TLC

\* ------------------------------------------------------------------ bounds
\* number of passes of the worker loop that are explored
MaxPasses == 2

\* longest destination of a hipchat message, in atoms
MaxDestLen == 6

\* longest list of steps that same_steps is called with
MaxSteps == 3

\* --------------------------------------------------- module level constants
scrumteam_prefix == "team"
immutable_suffix == <<"builtin">>
srt_suffix == <<"withsrt">>
mod_suffix == <<"withmod">>
private_suffix == <<"private">>
middleware_team == <<"middleware">>
mod_team == <<"mod">>
timeperiods == <<"workhours", "standby", "24x7", "businesshours">>

default_template == "default"
default_wait == 1800
default_repeat == 0
default_escalation_repeat == 1
default_escalation_wait == 900
default_priority == "high"
default_standby_escalation_priority == "urgent"

\* python None and the falsy test `if value`
None == "None"
Truthy(v) == v \notin {None, ""}

Range(s) == {s[i] : i \in DOMAIN s}

\* a python dict is a function; d.get(k)
DictGet(d, k) == IF k \in DOMAIN d THEN d[k] ELSE None

\* d with d[k] = v (key added or overwritten)
DictSet(d, k, v) == [x \in DOMAIN d \cup {k} |-> IF x = k THEN v ELSE d[x]]

\* d without the key k
DictDel(d, k) == [x \in DOMAIN d \ {k} |-> d[x]]

\* a variant of d1.update(d2) that leaves d1 as it is
DictNoUpdate(d1, d2) == d1

\* d1.update(d2)
DictUpdate(d1, d2) == [x \in DOMAIN d1 \cup DOMAIN d2 |-> IF x \in DOMAIN d2 THEN d2[x] ELSE d1[x]]

EmptyDict == [x \in {} |-> None]

\* a result of a python call: the value returned, or the exception raised
Ret(v) == [exc |-> "none", val |-> v]
Raise(e) == [exc |-> e, val |-> EmptyDict]

\* ------------------------------------------------------------ name universe
UserNames == {<<"u1">>, <<"u2">>}
TeamWorkhours == <<"team1a", "workhours", "builtin">>
Team24x7 == <<"team1a", "24x7", "builtin">>
TeamBusinesshours == <<"team1a", "businesshours", "builtin">>
TeamNames == {TeamWorkhours, Team24x7, TeamBusinesshours}

\* first parts on which str.startswith(scrumteam_prefix) is true
StartsWithScrumPrefix(part) == part \in {"team1a", "team2b"}

\* ------------------------------------------------------- Phone Normalizer
\* phonenumbers.parse of a number in region US, formatted INTERNATIONAL
ParsedNumbers == [x \in {"555", "666"} |-> IF x = "555" THEN "+1 555" ELSE "+1 666"]

normalize_phone_number(num) ==
    IF num = None THEN Raise("AttributeError")
    ELSE IF num \in DOMAIN ParsedNumbers THEN Ret(ParsedNumbers[num])
    ELSE Raise("NumberParseException")

\* fix_user_contacts: sms and call are normalised when they are truthy; the
\* first failing normalisation raises.  The result is a Ret of the dict.
fix_user_contacts(contacts) ==
    LET sms == DictGet(contacts, "sms")
        r1 == IF Truthy(sms) THEN normalize_phone_number(sms) ELSE Ret(sms)
        c1 == IF Truthy(sms) /\ r1.exc = "none" THEN DictSet(contacts, "sms", r1.val) ELSE contacts
        call == DictGet(c1, "call")
        r2 == IF Truthy(call) THEN normalize_phone_number(call) ELSE Ret(call)
        c2 == IF Truthy(call) /\ r2.exc = "none" THEN DictSet(c1, "call", r2.val) ELSE c1
    IN  IF r1.exc # "none" THEN Raise(r1.exc)
        ELSE IF r2.exc # "none" THEN Raise(r2.exc)
        ELSE Ret(c2)

\* ----------------------------------------------------------- Roster Client
\* What the dict comprehension of fetch_users_from_oncall does with the
\* entries of the decoded answer, first entry first.  An entry has a shape:
\* "dict" (name, active, contacts present), "not_a_dict" (a JSON string
\* where an object is expected), "no_active_key" (an object without the key
\* 'active'), "null_contacts" (contacts is JSON null).
RECURSIVE UsersComprehension(_, _)
UsersComprehension(body, acc) ==
    IF body = <<>> THEN Ret(acc)
    ELSE LET user == Head(body) IN
         IF user.shape = "not_a_dict" THEN Raise("TypeError")
         ELSE IF user.shape = "no_active_key" THEN Raise("KeyError")
         ELSE IF ~user.active THEN UsersComprehension(Tail(body), acc)
         ELSE IF user.shape = "null_contacts" THEN Raise("AttributeError")
         ELSE LET fixed == fix_user_contacts(user.contacts) IN
              IF fixed.exc # "none" THEN Raise(fixed.exc)
              ELSE UsersComprehension(Tail(body), DictSet(acc, user.name, fixed.val))

\* the exceptions the two except clauses catch
FetchUsersCaught == {"ValueError", "KeyError", "RequestException"}
FetchTeamsCaught == {"ValueError", "RequestException"}

\* fetch_users_from_oncall on an answer of the roster service: kind is
\* "RequestException" (transport error), "ValueError" (body is not JSON) or
\* "json" with the decoded body.
fetch_users_from_oncall(resp) ==
    LET r == IF resp.kind = "json" THEN UsersComprehension(resp.body, EmptyDict)
             ELSE Raise(resp.kind)
    IN  IF r.exc \in FetchUsersCaught THEN Ret(EmptyDict) ELSE r

\* fetch_teams_from_oncall: the decoded body is returned as it is.  kind
\* "json" carries a list of names (as a set, the caller makes it one);
\* kind "json_objects" is a list of JSON objects instead of names.
fetch_teams_from_oncall(resp) ==
    IF resp.kind \in {"json", "json_objects"} THEN [exc |-> "none", val |-> resp.body, kind |-> resp.kind]
    ELSE IF resp.kind \in FetchTeamsCaught THEN [exc |-> "none", val |-> {}, kind |-> "json"]
    ELSE [exc |-> resp.kind, val |-> {}, kind |-> "json"]

\* get_predefined_users: the preset users of the configuration, sms and call
\* normalised, None when the number is missing or cannot be parsed.
PresetCaught == {"NumberParseException", "KeyError", "AttributeError"}

PresetNumber(user, key) ==
    LET r == IF key \in DOMAIN user THEN normalize_phone_number(user[key]) ELSE Raise("KeyError")
    IN  IF r.exc = "none" THEN Ret(r.val)
        ELSE IF r.exc \in PresetCaught THEN Ret(None)
        ELSE r

get_predefined_users(preset_users) ==
    [n \in {u.name : u \in preset_users} |->
        LET user == CHOOSE u \in preset_users : u.name = n
        IN  [k \in (DOMAIN user \ {"name"}) \cup {"sms", "call"} |->
                IF k \in {"sms", "call"} THEN PresetNumber(user, k).val ELSE user[k]]]

\* ------------------------------------------------- Plan Template Library
NoTarget == <<>>

PlanStep(priority, repeat, role, wait) ==
    [priority |-> priority, repeat |-> repeat, role |-> role, target |-> NoTarget,
     template |-> default_template, wait |-> wait]

\* the three tables as the module defines them
TemplateTables ==
    [scrumteam |->
        << << PlanStep(default_priority, default_repeat, "oncall-primary-exclude-holidays", default_wait),
              PlanStep(default_priority, default_repeat, "oncall-primary", default_wait) >>,
           << PlanStep(default_priority, default_escalation_repeat, "oncall-primary-exclude-holidays", default_escalation_wait),
              PlanStep(default_standby_escalation_priority, default_escalation_repeat, "oncall-primary", default_escalation_wait) >>,
           << PlanStep(default_standby_escalation_priority, default_escalation_repeat, "oncall-primary", default_escalation_wait) >> >>,
     standby |->
        << << PlanStep(default_priority, default_repeat, "oncall-primary", default_wait) >>,
           << PlanStep(default_standby_escalation_priority, default_escalation_repeat, "oncall-primary", default_escalation_wait) >>,
           << PlanStep(default_standby_escalation_priority, default_escalation_repeat, "oncall-primary", default_escalation_wait) >> >>,
     private |->
        << << PlanStep(default_priority, default_repeat, "oncall-primary", default_wait) >> >>]

\* The tables are module globals, lists of lists of dicts that any function
\* of the module can write to: what a function reads is their current value.
VARIABLE templates

default_scrumteam_plan_steps == templates.scrumteam

default_standby_plan_steps == templates.standby

default_private_plan_steps == templates.private

\* a variant of deepcopy that makes no copy (all_steps = table): the table is
\* the object that the assignments to all_steps write to
no_copy(table, all_steps) == all_steps

\* all_steps = copy.deepcopy(table): all_steps is a new object, and the table
\* keeps its value whatever is assigned to all_steps afterwards
deepcopy(table, all_steps) == table

\* a variant of SetTarget that writes to the first step of the level,
\* whatever the index of the step
SetTargetOfFirst(all_steps, level, i, t) ==
    [all_steps EXCEPT ![level][1].target = t]

\* all_steps[level][i]['target'] = t
SetTarget(all_steps, level, i, t) ==
    [all_steps EXCEPT ![level][i].target = t]

\* plan types are written as the parts of the python string
Withsrt24x7 == <<"withsrt", "24x7">>
WithsrtBusinesshours == <<"withsrt", "businesshours">>
WithmodStandby == <<"withmod", "standby">>
WithmodBusinesshours == <<"withmod", "businesshours">>
PrivateWorkhours == <<"private", "workhours">>
PrivateBusinesshours == <<"private", "businesshours">>
Private24x7 == <<"private", "24x7">>

\* plan_type.split('-')[-1]
LastPart(s) == s[Len(s)]

DescrWithsrt == <<"Escalation and after hours support by SRT, EOD and MOD">>
DescrWithmod == <<"Standby plan with escalation (24x7)">>
\* 'Simple plan without escalation (' + hours + ')'
DescrPrivate(hours) == <<"Simple plan without escalation (", hours, ")">>

\* get_default_plan_steps: (plan_description, step_count, all_steps)
get_default_plan_steps(team, plan_type, target_team, standby_team, escalation_team, standby_escalation_team) ==
    IF plan_type = Withsrt24x7 THEN
        [description |-> DescrWithsrt,
         step_count |-> 3,
         all_steps |-> SetTarget(SetTarget(SetTarget(SetTarget(SetTarget(default_scrumteam_plan_steps,
                          1, 1, target_team), 1, 2, standby_team), 2, 1, escalation_team),
                          2, 2, standby_team), 3, 1, standby_escalation_team)]
    ELSE IF plan_type = WithmodStandby THEN
        [description |-> DescrWithmod,
         step_count |-> 3,
         all_steps |-> SetTarget(SetTarget(SetTarget(default_standby_plan_steps,
                          1, 1, target_team), 2, 1, escalation_team), 3, 1, escalation_team)]
    ELSE IF plan_type \in {PrivateWorkhours, PrivateBusinesshours, Private24x7} THEN
        [description |-> DescrPrivate(LastPart(plan_type)),
         step_count |-> 1,
         all_steps |-> SetTarget(default_private_plan_steps, 1, 1, target_team)]
    ELSE [description |-> <<"">>, step_count |-> 1, all_steps |-> <<>>]

\* -------------------------------------------- Team Classifier & Plan Deriver
\* str.replace('-' + part, '') for every part of the set: the parts after
\* the first one that are in the set are removed
RemoveParts(name, parts) ==
    LET keep(i) == i = 1 \/ name[i] \notin parts
    IN  SelectSeq([i \in 1..Len(name) |-> <<i, name[i]>>], LAMBDA p : keep(p[1]))

PartsOf(pairs) == [i \in 1..Len(pairs) |-> pairs[i][2]]

StrReplaceParts(name, parts) == PartsOf(RemoveParts(name, parts))

MakePlan(name, steps, type) ==
    [name |-> name, description |-> steps.description, step_count |-> steps.step_count,
     all_steps |-> steps.all_steps, type |-> type]

\* a variant of get_default_plans that tests standby_teams before
\* platform_teams
get_default_plans_standby_first(space_to_srt_mapping, team, platform_teams, standby_teams, standby_escalation_teams, scrumteams) ==
    LET sane_name == StrReplaceParts(team, Range(immutable_suffix))
        bol_teamname == <<Head(sane_name)>>
        private_24x7_planname == bol_teamname \o <<"24x7">> \o private_suffix \o immutable_suffix
        private_24x7_teamname == bol_teamname \o <<"24x7">> \o immutable_suffix
        private_workhours_planname == bol_teamname \o <<"workhours">> \o private_suffix \o immutable_suffix
        private_workhours_teamname == bol_teamname \o <<"workhours">> \o immutable_suffix
        private_businesshours_planname == bol_teamname \o <<"businesshours">> \o private_suffix \o immutable_suffix
        private_businesshours_teamname == bol_teamname \o <<"businesshours">> \o immutable_suffix
        private_plans ==
            << MakePlan(private_24x7_planname,
                   get_default_plan_steps(team, Private24x7, private_24x7_teamname, NoTarget, NoTarget, NoTarget),
                   Private24x7),
               MakePlan(private_businesshours_planname,
                   get_default_plan_steps(team, PrivateBusinesshours, private_businesshours_teamname, NoTarget, NoTarget, NoTarget),
                   PrivateBusinesshours),
               MakePlan(private_workhours_planname,
                   get_default_plan_steps(team, PrivateWorkhours, private_workhours_teamname, NoTarget, NoTarget, NoTarget),
                   PrivateWorkhours) >>
    IN  IF bol_teamname \in standby_teams THEN
            LET withmod_planname == bol_teamname \o <<"24x7">> \o mod_suffix \o immutable_suffix
                withmod_teamname == bol_teamname \o <<"workhours">> \o immutable_suffix
                escalation_team == mod_team \o <<"24x7">> \o immutable_suffix
                withmod_businesshours_planname == bol_teamname \o <<"businesshours">> \o mod_suffix \o immutable_suffix
                withmod_businesshours_teamname == bol_teamname \o <<"workhours">> \o immutable_suffix
                escalation_team_bh == mod_team \o <<"businesshours">> \o immutable_suffix
            IN  Ret(<< MakePlan(withmod_planname,
                           get_default_plan_steps(team, WithmodStandby, withmod_teamname, NoTarget, escalation_team, NoTarget),
                           WithmodStandby),
                       MakePlan(withmod_businesshours_planname,
                           get_default_plan_steps(team, WithmodStandby, withmod_businesshours_teamname, NoTarget, escalation_team_bh, NoTarget),
                           WithmodBusinesshours) >>)
        ELSE IF bol_teamname \in platform_teams THEN Ret(<<>>)
        ELSE IF bol_teamname \in standby_escalation_teams THEN Ret(<<>>)
        ELSE IF StartsWithScrumPrefix(Head(team)) THEN
            IF bol_teamname \in DOMAIN scrumteams THEN
                LET space == scrumteams[bol_teamname].space IN
                IF space \notin DOMAIN space_to_srt_mapping THEN Raise("KeyError")
                ELSE
                LET srt == space_to_srt_mapping[space] \o immutable_suffix
                    withsrt_planname == bol_teamname \o <<"24x7">> \o srt_suffix \o immutable_suffix
                    withsrt_teamname == bol_teamname \o <<"workhours">> \o immutable_suffix
                    standby_team == middleware_team \o <<"standby">> \o immutable_suffix
                    standby_escalation_team == mod_team \o <<"standby">> \o immutable_suffix
                    withsrt_businesshours_planname == bol_teamname \o <<"businesshours">> \o srt_suffix \o immutable_suffix
                    withsrt_businesshours_teamname == bol_teamname \o <<"workhours">> \o immutable_suffix
                    standby_team_bh == middleware_team \o <<"businesshours">> \o immutable_suffix
                    standby_escalation_team_bh == mod_team \o <<"businesshours">> \o immutable_suffix
                IN  Ret(<< MakePlan(withsrt_planname,
                               get_default_plan_steps(team, Withsrt24x7, withsrt_teamname, standby_team, srt, standby_escalation_team),
                               Withsrt24x7),
                           MakePlan(withsrt_businesshours_planname,
                               get_default_plan_steps(team, Withsrt24x7, withsrt_businesshours_teamname, standby_team_bh, srt, standby_escalation_team_bh),
                               WithsrtBusinesshours) >> \o private_plans)
            ELSE Ret(private_plans)
        ELSE Ret(<<>>)

\* get_default_plans: Ret(list of plans) or the exception raised
get_default_plans(space_to_srt_mapping, team, platform_teams, standby_teams, standby_escalation_teams, scrumteams) ==
    LET sane_name == StrReplaceParts(team, Range(immutable_suffix))
        bol_teamname == <<Head(sane_name)>>
        private_24x7_planname == bol_teamname \o <<"24x7">> \o private_suffix \o immutable_suffix
        private_24x7_teamname == bol_teamname \o <<"24x7">> \o immutable_suffix
        private_workhours_planname == bol_teamname \o <<"workhours">> \o private_suffix \o immutable_suffix
        private_workhours_teamname == bol_teamname \o <<"workhours">> \o immutable_suffix
        private_businesshours_planname == bol_teamname \o <<"businesshours">> \o private_suffix \o immutable_suffix
        private_businesshours_teamname == bol_teamname \o <<"businesshours">> \o immutable_suffix
        private_plans ==
            << MakePlan(private_24x7_planname,
                   get_default_plan_steps(team, Private24x7, private_24x7_teamname, NoTarget, NoTarget, NoTarget),
                   Private24x7),
               MakePlan(private_businesshours_planname,
                   get_default_plan_steps(team, PrivateBusinesshours, private_businesshours_teamname, NoTarget, NoTarget, NoTarget),
                   PrivateBusinesshours),
               MakePlan(private_workhours_planname,
                   get_default_plan_steps(team, PrivateWorkhours, private_workhours_teamname, NoTarget, NoTarget, NoTarget),
                   PrivateWorkhours) >>
    IN  IF bol_teamname \in platform_teams THEN Ret(<<>>)
        ELSE IF bol_teamname \in standby_teams THEN
            LET withmod_planname == bol_teamname \o <<"24x7">> \o mod_suffix \o immutable_suffix
                withmod_teamname == bol_teamname \o <<"workhours">> \o immutable_suffix
                escalation_team == mod_team \o <<"24x7">> \o immutable_suffix
                withmod_businesshours_planname == bol_teamname \o <<"businesshours">> \o mod_suffix \o immutable_suffix
                withmod_businesshours_teamname == bol_teamname \o <<"workhours">> \o immutable_suffix
                escalation_team_bh == mod_team \o <<"businesshours">> \o immutable_suffix
            IN  Ret(<< MakePlan(withmod_planname,
                           get_default_plan_steps(team, WithmodStandby, withmod_teamname, NoTarget, escalation_team, NoTarget),
                           WithmodStandby),
                       MakePlan(withmod_businesshours_planname,
                           get_default_plan_steps(team, WithmodStandby, withmod_businesshours_teamname, NoTarget, escalation_team_bh, NoTarget),
                           WithmodBusinesshours) >>)
        ELSE IF bol_teamname \in standby_escalation_teams THEN Ret(<<>>)
        ELSE IF StartsWithScrumPrefix(Head(team)) THEN
            IF bol_teamname \in DOMAIN scrumteams THEN
                LET space == scrumteams[bol_teamname].space IN
                IF space \notin DOMAIN space_to_srt_mapping THEN Raise("KeyError")
                ELSE
                LET srt == space_to_srt_mapping[space] \o immutable_suffix
                    withsrt_planname == bol_teamname \o <<"24x7">> \o srt_suffix \o immutable_suffix
                    withsrt_teamname == bol_teamname \o <<"workhours">> \o immutable_suffix
                    standby_team == middleware_team \o <<"standby">> \o immutable_suffix
                    standby_escalation_team == mod_team \o <<"standby">> \o immutable_suffix
                    withsrt_businesshours_planname == bol_teamname \o <<"businesshours">> \o srt_suffix \o immutable_suffix
                    withsrt_businesshours_teamname == bol_teamname \o <<"workhours">> \o immutable_suffix
                    standby_team_bh == middleware_team \o <<"businesshours">> \o immutable_suffix
                    standby_escalation_team_bh == mod_team \o <<"businesshours">> \o immutable_suffix
                IN  Ret(<< MakePlan(withsrt_planname,
                               get_default_plan_steps(team, Withsrt24x7, withsrt_teamname, standby_team, srt, standby_escalation_team),
                               Withsrt24x7),
                           MakePlan(withsrt_businesshours_planname,
                               get_default_plan_steps(team, Withsrt24x7, withsrt_businesshours_teamname, standby_team_bh, srt, standby_escalation_team_bh),
                               WithsrtBusinesshours) >> \o private_plans)
            ELSE Ret(private_plans)
        ELSE Ret(<<>>)

\* --------------------------------------------------------------- the store
\* The tables of the iris database that the script reads and writes.
\*   target            name -> "absent" | "active" | "inactive"; the type of a
\*                     name is fixed by the universe it is taken from
\*   user              the names with a row in `user`
\*   target_contact    user name -> (mode -> destination)
\*   plan              the rows of `plan`, the id of a row is its index
\*   plan_notification the rows of `plan_notification`, in insertion order
\*   plan_active       plan name -> plan id
\*   target_role       rows [id, name, type]
\*   priority          priority name -> id
VARIABLES target, user, target_contact, plan, plan_notification, plan_active,
          target_role, priority

\* configuration and module globals
VARIABLES NOOP, config, priorities, target_roles

\* the greenlet that main spawns for metrics.emit_forever: "alive" or "dead"
VARIABLE metrics_task

\* the worker: position, exception that ended the process, number of passes
VARIABLES pc, exc, passes

\* locals of sync_from_oncall
VARIABLES oncall_users, oncall_team_names, iris_users,
          users_to_insert, users_to_update, users_to_mark_inactive,
          teams_to_insert, teams_to_update, teams_to_deactivate,
          todo, plan_queue, cur_team

\* what the roster answered in the current pass, the operation of the last
\* step and its outcome, the operations of the current pass so far
VARIABLES fetched, step_op, step_result, ops

\* the answers the roster service can give to the user query and to the team
\* query while the process runs
VARIABLE upstream

\* a statement of the store has failed in this process and the error was
\* caught (users_failed_to_add, users_failed_to_update, teams_failed_to_add
\* or sql_errors was incremented)
VARIABLE store_errors

\* the hipchat vendor: the destination of the message it is given, and what
\* parse_destination made of it
VARIABLES destination, parsed

\* a call of same_steps and the construction of a DictDiffer outside the
\* worker loop: the arguments, and what was returned
VARIABLES list_of_steps, steps_found, same, current_dict, past_dict, differ

store == <<target, user, target_contact, plan, plan_notification, plan_active>>
hipchat == <<destination, parsed>>
calls == <<list_of_steps, steps_found, same, current_dict, past_dict, differ>>
tables == <<target_role, priority>>
settings == <<NOOP, config, templates, metrics_task>>
caches == <<priorities, target_roles>>
locals == <<oncall_users, oncall_team_names, iris_users,
            users_to_insert, users_to_update, users_to_mark_inactive,
            teams_to_insert, teams_to_update, teams_to_deactivate>>
vars == <<store, tables, hipchat, calls, upstream, upstream, settings, caches, pc, exc, passes, locals,
          todo, plan_queue, cur_team, fetched, step_op, step_result, ops, store_errors>>

Modes == {"sms", "call"}

TypeOf(name) == IF name \in UserNames THEN "user" ELSE "team"

TargetStatus(tgt, name) == IF name \in DOMAIN tgt THEN tgt[name] ELSE "absent"

\* the id of the target row with this name and type, NotFound without one
NotFound == [name |-> <<>>, type |-> "none"]
TargetId(tgt, name, type) ==
    IF TargetStatus(tgt, name) # "absent" /\ TypeOf(name) = type
    THEN [name |-> name, type |-> type] ELSE NotFound

\* get_target: the id of the team target with this name (type_id = 2)
get_target(tgt, name) == TargetId(tgt, name, "team")

\* get_users: the active targets that have a `user` row, with their contacts
\* (a contact without mode or destination is skipped)
get_users(tgt, usr, contacts) ==
    [n \in {u \in UserNames : TargetStatus(tgt, u) = "active" /\ u \in usr} |->
        [m \in {k \in DOMAIN contacts[n] : contacts[n][k] # None} |-> contacts[n][m]]]

\* SELECT name FROM target WHERE type_id = team (active or not)
IrisTeamNames(tgt) == {n \in DOMAIN tgt : TypeOf(n) = "team" /\ tgt[n] # "absent"}

\* a variant of get_plan without the join: the ids of the rows of `plan`
\* with this name, whether an active pointer refers to them or not
get_plan_unjoined(pl, active, name) == {i \in 1..Len(pl) : pl[i].name = name}

\* get_plan: the ids of the rows of `plan` with this name that an active
\* pointer refers to
get_plan(pl, active, name) ==
    {i \in 1..Len(pl) : pl[i].name = name /\ \E n \in DOMAIN active : active[n] = i}

\* get_plan_id: the ids of the rows of `plan` with this name (the query has
\* no ORDER BY and fetchone takes whichever row comes first)
get_plan_id(pl, name) == {i \in 1..Len(pl) : pl[i].name = name}

False == "False"

\* get_priority_id / get_target_role_name: id -> name, False when unknown
get_priority_id(prio, id) ==
    IF \E n \in DOMAIN prio : prio[n] = id THEN CHOOSE n \in DOMAIN prio : prio[n] = id ELSE False

get_target_role_name(roles, id) ==
    IF \E r \in roles : r.id = id THEN (CHOOSE r \in roles : r.id = id).name ELSE False

\* a variant of get_plan_notification that reads the columns repeat and
\* wait in each other's place
get_plan_notification_swapped(pn, prio, roles, plan_id) ==
    LET rows == SelectSeq(pn, LAMBDA r : r.plan_id = plan_id)
        clean(r) == [priority |-> get_priority_id(prio, r.priority_id),
                     repeat |-> r.wait,
                     role |-> get_target_role_name(roles, r.role_id),
                     target |-> r.target_id,
                     template |-> r.template,
                     wait |-> r.repeat]
        unique_steps == {rows[i].step : i \in DOMAIN rows}
        level(n) == LET l == SelectSeq(rows, LAMBDA r : r.step = n)
                    IN  [i \in DOMAIN l |-> clean(l[i])]
        RECURSIVE levels(_)
        levels(S) == IF S = {} THEN <<>>
                     ELSE LET n == CHOOSE x \in S : \A y \in S : x <= y
                          IN  <<level(n)>> \o levels(S \ {n})
    IN  levels(unique_steps)

\* get_plan_notification: the stored steps of a plan as a list of levels,
\* ids resolved; <<>> stands for the False returned when there is no row
get_plan_notification(pn, prio, roles, plan_id) ==
    LET rows == SelectSeq(pn, LAMBDA r : r.plan_id = plan_id)
        clean(r) == [priority |-> get_priority_id(prio, r.priority_id),
                     repeat |-> r.repeat,
                     role |-> get_target_role_name(roles, r.role_id),
                     target |-> r.target_id,
                     template |-> r.template,
                     wait |-> r.wait]
        unique_steps == {rows[i].step : i \in DOMAIN rows}
        level(n) == LET l == SelectSeq(rows, LAMBDA r : r.step = n)
                    IN  [i \in DOMAIN l |-> clean(l[i])]
        RECURSIVE levels(_)
        levels(S) == IF S = {} THEN <<>>
                     ELSE LET n == CHOOSE x \in S : \A y \in S : x <= y
                          IN  <<level(n)>> \o levels(S \ {n})
    IN  levels(unique_steps)

\* ---------------------------------------------------------- Plan Comparator
\* clean_plan: the fields of a plan that are left after ignore_plan_fields
clean_plan(p) == [description |-> p.description, step_count |-> p.step_count]

\* same_plan: cmp(should_plan, is_plan) == 0
same_plan(is_plan, should_plan) == should_plan = is_plan

Reverse(s) == [i \in 1..Len(s) |-> s[Len(s) + 1 - i]]

\* a variant of same_steps without the second, reversed comparison
same_steps_ordered(is_step, should_step) == should_step = is_step

\* same_steps: equal, or equal to the reversed list
same_steps(is_step, should_step) ==
    ~(should_step # is_step /\ Reverse(should_step) # is_step)

HasStep(all_steps, level, i) ==
    level \in DOMAIN all_steps /\ i \in DOMAIN all_steps[level]

\* the (description, step_count, notification) valid_plan expects for a type
ShouldOf(tgt, default_plan, plan_type) ==
    LET steps == default_plan.all_steps
        t(level, i) == get_target(tgt, steps[level][i].target)
    IN  IF ~HasStep(steps, 1, 1) THEN Raise("IndexError")
        ELSE IF plan_type \in {Withsrt24x7, WithsrtBusinesshours} THEN
            IF ~(HasStep(steps, 1, 2) /\ HasStep(steps, 2, 1) /\ HasStep(steps, 3, 1))
            THEN Raise("IndexError")
            ELSE Ret([description |-> DescrWithsrt, step_count |-> 3,
                      notification |->
                        SetTarget(SetTarget(SetTarget(SetTarget(SetTarget(default_scrumteam_plan_steps,
                            1, 1, t(1, 1)), 1, 2, t(1, 2)), 2, 1, t(2, 1)), 2, 2, t(1, 2)), 3, 1, t(3, 1))])
        ELSE IF plan_type \in {WithmodStandby, WithmodBusinesshours} THEN
            IF ~HasStep(steps, 2, 1)
            THEN Raise("IndexError")
            ELSE Ret([description |-> DescrWithmod, step_count |-> 3,
                      notification |->
                        SetTarget(SetTarget(SetTarget(default_standby_plan_steps,
                            1, 1, t(1, 1)), 2, 1, t(2, 1)), 3, 1, t(2, 1))])
        ELSE IF plan_type \in {PrivateWorkhours, PrivateBusinesshours, Private24x7} THEN
            Ret([description |-> DescrPrivate(LastPart(plan_type)), step_count |-> 1,
                      notification |-> SetTarget(default_private_plan_steps, 1, 1, t(1, 1))])
        ELSE Raise("SystemExit")

\* valid_plan: Ret(TRUE / FALSE) or the exception raised.  stored is the
\* row of `plan` (with its id) that get_plan returned.
valid_plan(tgt, pn, prio, roles, stored, team, default_plan, plan_type) ==
    LET should == ShouldOf(tgt, default_plan, plan_type) IN
    IF should.exc # "none" THEN should
    ELSE
    LET is_plan == clean_plan(stored)
        should_plan == [description |-> should.val.description, step_count |-> should.val.step_count]
        should_notification == should.val.notification
        is_notification == get_plan_notification(pn, prio, roles, stored.id)
    IN  IF is_notification = <<>> THEN Ret(FALSE)
        ELSE IF \E l \in DOMAIN should_notification : l \notin DOMAIN is_notification
        THEN Raise("IndexError")
        ELSE Ret(same_plan(should_plan, is_plan)
                 /\ \A l \in DOMAIN should_notification :
                        same_steps(should_notification[l], is_notification[l]))

\* ------------------------------------------------------------- create_plan
\* the steps of all_steps in the order create_plan visits them
RECURSIVE FlatSteps(_, _)
FlatSteps(all_steps, index) ==
    IF index > Len(all_steps) THEN <<>>
    ELSE [i \in DOMAIN all_steps[index] |-> [index |-> index, step |-> all_steps[index][i]]]
         \o FlatSteps(all_steps, index + 1)

\* get_allowed_roles_query: the ids of the roles of the type of every target
\* row with this name
AllowedRoles(tgt, roles, name) ==
    {r.id : r \in {x \in roles : TargetStatus(tgt, name) # "absent" /\ x.type = TypeOf(name)}}

RoleType(roles, id) ==
    IF \E r \in roles : r.id = id THEN (CHOOSE r \in roles : r.id = id).type ELSE "none"

NoFault == [at |-> 0, exc |-> "none"]

\* a variant of InsertSteps that executes the insert of a step first and
\* looks at the allowed roles afterwards
RECURSIVE InsertStepsUnvalidated(_, _, _, _, _, _, _, _)
InsertStepsUnvalidated(flat, k, plan_id, pn, tgt, roles, cache, fault) ==
    IF flat = <<>> THEN [exc |-> "none", pn |-> pn]
    ELSE
    LET index == Head(flat).index
        step == Head(flat).step
        role == IF step.role \in DOMAIN cache.target_roles THEN cache.target_roles[step.role] ELSE 0
        allowed_roles == {r.id : r \in {x \in roles : TargetStatus(tgt, step.target) # "absent"
                                                        /\ x.type = TypeOf(step.target)}}
        row == [plan_id |-> plan_id, step |-> index,
                priority_id |-> cache.priorities[step.priority],
                target_id |-> [name |-> step.target, type |-> TypeOf(step.target)],
                template |-> step.template, role_id |-> role,
                repeat |-> step.repeat, wait |-> step.wait]
    IN  IF step.priority \notin DOMAIN cache.priorities THEN [exc |-> "TypeError", pn |-> pn]
        ELSE IF fault.at = k THEN
            [exc |-> IF fault.exc = "IntegrityError" THEN "HTTPBadRequest" ELSE fault.exc, pn |-> pn]
        ELSE IF allowed_roles = {} THEN [exc |-> "HTTPBadRequest", pn |-> Append(pn, row)]
        ELSE IF role \notin allowed_roles THEN [exc |-> "HTTPBadRequest", pn |-> Append(pn, row)]
        ELSE InsertStepsUnvalidated(Tail(flat), k + 1, plan_id, Append(pn, row), tgt, roles, cache, fault)

\* the loop over the steps, within the session: k is the number of the
\* statement (the plan insert is statement 1).  The result is the exception
\* raised, if any, and the rows of plan_notification the session has written.
RECURSIVE InsertSteps(_, _, _, _, _, _, _, _)
InsertSteps(flat, k, plan_id, pn, tgt, roles, cache, fault) ==
    IF flat = <<>> THEN [exc |-> "none", pn |-> pn]
    ELSE
    LET index == Head(flat).index
        step == Head(flat).step
        role == IF step.role \in DOMAIN cache.target_roles THEN cache.target_roles[step.role] ELSE 0
        allowed_roles == AllowedRoles(tgt, roles, step.target)
        row == [plan_id |-> plan_id, step |-> index,
                priority_id |-> cache.priorities[step.priority],
                target_id |-> TargetId(tgt, step.target, RoleType(roles, role)),
                template |-> step.template, role_id |-> role,
                repeat |-> step.repeat, wait |-> step.wait]
    IN  IF step.priority \notin DOMAIN cache.priorities THEN [exc |-> "TypeError", pn |-> pn]
        ELSE IF allowed_roles = {} THEN [exc |-> "HTTPBadRequest", pn |-> pn]
        ELSE IF role \notin allowed_roles THEN [exc |-> "HTTPBadRequest", pn |-> pn]
        ELSE IF fault.at = k THEN
            [exc |-> IF fault.exc = "IntegrityError" THEN "HTTPBadRequest" ELSE fault.exc, pn |-> pn]
        ELSE IF row.target_id = NotFound THEN [exc |-> "HTTPBadRequest", pn |-> pn]
        ELSE InsertSteps(Tail(flat), k + 1, plan_id, Append(pn, row), tgt, roles, cache, fault)

\* What the session of create_plan has written when the function returns or
\* raises: db is [plan, plan_notification, plan_active].
CreatePlanSession(db, tgt, roles, cache, plan_name, all_steps, step_count, plan_description, fault) ==
    IF fault.at = 1 THEN [exc |-> fault.exc, db |-> db]
    ELSE
    LET plan_id == Len(db.plan) + 1
        pl == Append(db.plan, [name |-> plan_name, description |-> plan_description,
                               step_count |-> step_count])
        flat == FlatSteps(all_steps, 1)
        ins == InsertSteps(flat, 2, plan_id, db.plan_notification, tgt, roles, cache, fault)
        written == [plan |-> pl, plan_notification |-> ins.pn, plan_active |-> db.plan_active]
    IN  IF ins.exc # "none" THEN [exc |-> ins.exc, db |-> written]
        ELSE IF fault.at = Len(flat) + 2 THEN [exc |-> fault.exc, db |-> written]
        ELSE [exc |-> "none",
              db |-> [written EXCEPT !.plan_active = DictSet(db.plan_active, plan_name, plan_id)]]

\* a variant of SessionEnd without a transaction: every statement of the
\* session is kept as soon as it is executed
SessionEndAutocommit(db, session) == session.db

\* The session ends with commit() when create_plan returns, and is closed (or
\* dropped) without a commit when it raises: the store keeps what the session
\* wrote only in the first case.
SessionEnd(db, session) == IF session.exc = "none" THEN session.db ELSE db

\* a variant of create_plan whose last statement is INSERT IGNORE: a name
\* that has an active pointer keeps it
create_plan_insert_ignore(db, tgt, roles, cache, plan_name, all_steps, step_count, plan_description, fault) ==
    LET session == CreatePlanSession(db, tgt, roles, cache, plan_name, all_steps, step_count, plan_description, fault)
        kept == IF plan_name \in DOMAIN db.plan_active
                THEN [session.db EXCEPT !.plan_active = db.plan_active]
                ELSE session.db
    IN  [exc |-> session.exc, db |-> SessionEnd(db, [exc |-> session.exc, db |-> kept])]

\* create_plan: the exception it raises ("none" when it returns) and the
\* three plan tables afterwards
create_plan(db, tgt, roles, cache, plan_name, all_steps, step_count, plan_description, fault) ==
    LET session == CreatePlanSession(db, tgt, roles, cache, plan_name, all_steps, step_count, plan_description, fault)
    IN  [exc |-> session.exc, db |-> SessionEnd(db, session)]

\* every fault the store can answer create_plan with: no fault, or an error
\* on one of its statements
CreatePlanFaults(all_steps) ==
    {NoFault} \cup [at : 1..(Len(FlatSteps(all_steps, 1)) + 2), exc : {"SQLAlchemyError", "IntegrityError"}]

\* ------------------------------------------------------ inputs of the model
U1 == <<"u1">>
U2 == <<"u2">>

Entry(shape, name, active, contacts) ==
    [shape |-> shape, name |-> name, active |-> active, contacts |-> contacts]

Sms(d) == [k \in {"sms"} |-> d]
Call(d) == [k \in {"call"} |-> d]

\* the answers of the roster to the user query: a transport error, a body
\* that is not JSON, and lists of entries
RosterBodies ==
    { <<>>,
      << Entry("dict", U1, TRUE, Sms("555")), Entry("dict", U2, TRUE, Call("")) >>,
      << Entry("dict", U2, TRUE, Call("555")) >>,
      << Entry("dict", U1, FALSE, Sms("555")) >>,
      << Entry("dict", U2, TRUE, EmptyDict), Entry("dict", U1, TRUE, Sms("bad")) >>,
      << Entry("not_a_dict", U1, TRUE, EmptyDict) >>,
      << Entry("dict", U2, TRUE, EmptyDict), Entry("no_active_key", U1, TRUE, EmptyDict) >>,
      << Entry("null_contacts", U1, TRUE, EmptyDict) >> }

UserResponses ==
    { [kind |-> "RequestException", body |-> <<>>], [kind |-> "ValueError", body |-> <<>>] }
    \cup { [kind |-> "json", body |-> b] : b \in RosterBodies }

\* the answers of the roster to the team query
TeamSnapshots == { {}, {Team24x7, TeamBusinesshours}, TeamNames }

TeamResponses ==
    { [kind |-> "RequestException", body |-> {}], [kind |-> "ValueError", body |-> {}],
      [kind |-> "json_objects", body |-> {}] }
    \cup { [kind |-> "json", body |-> S] : S \in TeamSnapshots }

\* the roster service may give any of its answers to any query
AnyAnswer == [users |-> UserResponses, teams |-> TeamResponses]

\* the configurations: roster URL present or not, preset users, and the
\* scrum-team table with the space to SRT mapping
PresetUsers == { {}, {[name |-> U1, sms |-> "bad", call |-> "555"]} }

ScrumTables ==
    { [scrumteams |-> EmptyDict, space_to_srt_team |-> EmptyDict],
      [scrumteams |-> [t \in {<<"team1a">>} |-> [space |-> "retail"]],
       space_to_srt_team |-> [sp \in {"retail"} |-> <<"srt", "retail">>]] }

Config(api, presets, scrum) ==
    [oncall_api |-> api, preset_users |-> presets,
     platform_teams |-> {<<"tes">>}, standby_teams |-> {<<"eod">>},
     standby_escalation_teams |-> {<<"mod">>},
     space_to_srt_team |-> scrum.space_to_srt_team, scrumteams |-> scrum.scrumteams]

NoScrumTable == CHOOSE sc \in ScrumTables : sc.scrumteams = EmptyDict

Configs ==
    { Config(TRUE, p, NoScrumTable) : p \in PresetUsers }
    \cup { Config(TRUE, {}, sc) : sc \in ScrumTables }
    \cup { Config(FALSE, {}, NoScrumTable) }

\* the rows of target_role and priority
RoleUser == [id |-> 1, name |-> "user", type |-> "user"]
RolePrimary == [id |-> 2, name |-> "oncall-primary", type |-> "team"]
RoleExcludeHolidays == [id |-> 3, name |-> "oncall-primary-exclude-holidays", type |-> "team"]
FullRoleTable == {RoleUser, RolePrimary, RoleExcludeHolidays}
RoleTables == { FullRoleTable, {RoleUser, RolePrimary} }

PriorityTable == [n \in {"urgent", "high"} |-> IF n = "urgent" THEN 1 ELSE 2]

\* the stores the daemon may be started on: an empty one, and one that holds
\* a user with a contact, the three team targets and one plan
NoContacts == [u \in UserNames |-> EmptyDict]
EmptyStore ==
    [target |-> [n \in UserNames \cup TeamNames |-> "absent"], user |-> {},
     target_contact |-> NoContacts,
     plan |-> <<>>, plan_notification |-> <<>>, plan_active |-> EmptyDict]

\* a plan row that an earlier release wrote under the name of the private
\* 24x7 plan, with another description, and its single step
StalePlanName == <<"team1a", "24x7">> \o private_suffix \o immutable_suffix
StalePlan == [name |-> StalePlanName, description |-> <<"Simple plan">>, step_count |-> 1]
StaleStep ==
    [plan_id |-> 1, step |-> 1, priority_id |-> PriorityTable[default_priority],
     target_id |-> [name |-> Team24x7, type |-> "team"], template |-> default_template,
     role_id |-> RolePrimary.id, repeat |-> default_repeat, wait |-> default_wait]

FilledStore ==
    [target |-> [n \in UserNames \cup TeamNames |-> IF n = U2 THEN "absent" ELSE "active"],
     user |-> {U1},
     target_contact |-> [NoContacts EXCEPT ![U1] = [k \in {"sms", "call"} |-> "+1 666"]],
     plan |-> <<StalePlan>>, plan_notification |-> <<StaleStep>>,
     plan_active |-> [n \in {StalePlanName} |-> 1]]
InitialStores == {EmptyStore, FilledStore}

NoLocals ==
    /\ oncall_users' = EmptyDict
    /\ oncall_team_names' = {}
    /\ iris_users' = EmptyDict
    /\ users_to_insert' = {}
    /\ users_to_update' = {}
    /\ users_to_mark_inactive' = {}
    /\ teams_to_insert' = {}
    /\ teams_to_update' = {}
    /\ teams_to_deactivate' = {}
    /\ todo' = {}
    /\ plan_queue' = <<>>
    /\ cur_team' = <<>>

\* no message has been given to the vendor
NoMessage == [exc |-> "pending", val |-> <<>>]

\* nothing has been called outside the worker loop
NoCalls ==
    /\ list_of_steps = <<>>
    /\ steps_found = <<>>
    /\ same = NoMessage
    /\ current_dict = EmptyDict
    /\ past_dict = EmptyDict
    /\ differ = NoMessage

\* main has parsed its options and read its configuration, and the roster
\* service is one that gives these answers
Started(answers) ==
    /\ destination = <<>>
    /\ parsed = NoMessage
    /\ NoCalls
    /\ upstream = answers
    /\ store_errors = FALSE
    /\ templates = TemplateTables
    /\ metrics_task = "alive"
    /\ NOOP \in BOOLEAN
    /\ config \in Configs
    /\ \E s \in InitialStores :
        /\ target = s.target
        /\ user = s.user
        /\ target_contact = s.target_contact
        /\ plan = s.plan
        /\ plan_notification = s.plan_notification
        /\ plan_active = s.plan_active
        \* the filled store is the store of a deployment without a scrum-team
        \* table and without preset users, not started with --noop
        /\ (s = FilledStore => (~NOOP /\ config = Config(TRUE, {}, NoScrumTable)))
    /\ target_role \in RoleTables
    /\ (config.scrumteams = EmptyDict => target_role = FullRoleTable)
    /\ priority = PriorityTable
    /\ priorities = EmptyDict
    /\ target_roles = EmptyDict
    /\ pc = "main_loop"
    /\ exc = [name |-> "none", where |-> "none"]
    /\ passes = 0
    /\ oncall_users = EmptyDict
    /\ oncall_team_names = {}
    /\ iris_users = EmptyDict
    /\ users_to_insert = {}
    /\ users_to_update = {}
    /\ users_to_mark_inactive = {}
    /\ teams_to_insert = {}
    /\ teams_to_update = {}
    /\ teams_to_deactivate = {}
    /\ todo = {}
    /\ plan_queue = <<>>
    /\ cur_team = <<>>
    /\ fetched = [users |-> "none", teams |-> "none"]
    /\ step_op = "none"
    /\ step_result = "none"
    /\ ops = {}

Init == Started(AnyAnswer)

\* an exception that nothing catches leaves sync_from_oncall and main: the
\* process ends
Uncaught(name, where) ==
    /\ pc' = "exited"
    /\ exc' = [name |-> name, where |-> where]

\* a step that calls an operation of the pass
Called(op, result) ==
    /\ step_op' = op
    /\ step_result' = result
    /\ ops' = ops \cup {op}
    /\ store_errors' = (store_errors \/ result = "caught")

NoCall ==
    /\ step_op' = "none"
    /\ step_result' = "none"
    /\ UNCHANGED <<ops, store_errors>>

\* main: the head of the while loop
LoopHead ==
    /\ pc = "main_loop"
    /\ passes < MaxPasses
    /\ target_roles' = [n \in {r.name : r \in target_role} |-> (CHOOSE r \in target_role : r.name = n).id]
    /\ priorities' = priority
    \* `if not bool(metrics_task)`: a dead metrics task is spawned again
    /\ metrics_task' = "alive"
    /\ pc' = "sync"
    /\ NoCall
    /\ UNCHANGED <<store, tables, hipchat, calls, upstream, NOOP, config, templates, exc, passes, locals, todo, plan_queue, cur_team, fetched>>

\* a variant of Return that skips the sleep: main is at the head of its loop
\* again as soon as sync_from_oncall has returned
ReturnWithoutSleep ==
    /\ pc' = "main_loop"
    /\ UNCHANGED exc
    /\ NoLocals

\* sync_from_oncall returns: main goes on to the sleep
Return ==
    /\ pc' = "sleep"
    /\ UNCHANGED exc
    /\ NoLocals

\* an exception leaves sync_from_oncall
Die(name, where) ==
    /\ Uncaught(name, where)
    /\ NoLocals

\* a variant of NoUsersFound: the guard after the user fetch is absent
NoUsersFoundUnguarded(fetched_users) == FALSE

\* `if not oncall_users`: the guard after the user fetch
NoUsersFound(fetched_users) == fetched_users = EmptyDict

\* what a fetch gave: "empty" or "ok"
Fetched(val, empty) == IF val = empty THEN "empty" ELSE "ok"

FirstPhase == "insert_users"

\* sync_from_oncall up to the first loop: the roster is fetched, the guards
\* are evaluated, the local state is read and the partitions are computed
SyncStart ==
    /\ pc = "sync"
    /\ step_op' = "none"
    /\ step_result' = "none"
    /\ ops' = {}
    /\ UNCHANGED store_errors
    /\ UNCHANGED <<store, tables, hipchat, calls, upstream, settings, caches, passes>>
    /\ IF ~config.oncall_api
       THEN /\ fetched' = [users |-> "none", teams |-> "none"]
            /\ Return
       ELSE \E uresp \in upstream.users :
            LET ru == fetch_users_from_oncall(uresp) IN
            IF ru.exc # "none"
            THEN /\ fetched' = [users |-> "raised", teams |-> "none"]
                 /\ Die(ru.exc, "fetch_users_from_oncall")
            ELSE IF NoUsersFound(ru.val)
            THEN /\ fetched' = [users |-> Fetched(ru.val, EmptyDict), teams |-> "none"]
                 /\ Return
            ELSE \E tresp \in upstream.teams :
                 LET rt == fetch_teams_from_oncall(tresp) IN
                 IF rt.exc # "none"
                 THEN /\ fetched' = [users |-> Fetched(ru.val, EmptyDict), teams |-> "raised"]
                      /\ Die(rt.exc, "fetch_teams_from_oncall")
                 ELSE IF rt.kind = "json_objects"
                 THEN /\ fetched' = [users |-> Fetched(ru.val, EmptyDict), teams |-> "garbage"]
                      /\ Die("TypeError", "sync_from_oncall")
                 ELSE
                 LET iu == get_users(target, user, target_contact)
                     ou == DictUpdate(ru.val, get_predefined_users(config.preset_users))
                     itn == IrisTeamNames(target)
                 IN  /\ fetched' = [users |-> Fetched(ru.val, EmptyDict), teams |-> Fetched(rt.val, {})]
                     /\ oncall_users' = ou
                     /\ oncall_team_names' = rt.val
                     /\ iris_users' = iu
                     /\ users_to_insert' = DOMAIN ou \ DOMAIN iu
                     /\ users_to_update' = DOMAIN iu \cap DOMAIN ou
                     /\ users_to_mark_inactive' = DOMAIN iu \ DOMAIN ou
                     /\ teams_to_insert' = rt.val \ itn
                     /\ teams_to_update' = rt.val \cap itn
                     /\ teams_to_deactivate' = itn \ rt.val
                     /\ todo' = DOMAIN ou \ DOMAIN iu
                     /\ plan_queue' = <<>>
                     /\ cur_team' = <<>>
                     /\ pc' = FirstPhase
                     /\ UNCHANGED exc

\* a variant of insert_user that writes no contact at all
ContactsToInsertNone(contacts) == {}

\* the contacts of oncall_users[username] that insert_user writes
ContactsToInsert(contacts) ==
    {k \in DOMAIN contacts : Truthy(contacts[k]) /\ k \in Modes}

\* target_contact after the contacts of the modes in S are upserted
UpsertContacts(tc, username, contacts, S) ==
    [tc EXCEPT ![username] = DictUpdate(tc[username], [k \in S |-> contacts[k]])]

\* insert_user for one of users_to_insert.  The store may fail the insert
\* into `target`, the insert into `user` (both caught: the user is skipped)
\* or one of the contact inserts, which nothing catches.
InsertUser ==
    /\ pc = "insert_users"
    /\ \E username \in todo :
       LET contacts == oncall_users[username]
           K == ContactsToInsert(contacts)
           Go == /\ todo' = todo \ {username}
                 /\ UNCHANGED <<pc, exc, locals, plan_queue, cur_team>>
       IN  /\ UNCHANGED <<plan, plan_notification, plan_active, tables, hipchat, calls, upstream, settings, caches, passes, fetched>>
           /\ \E fault \in {"none", "target", "user", "contact"} :
              CASE fault = "none" ->
                    /\ target' = [target EXCEPT ![username] = "active"]
                    /\ user' = user \cup {username}
                    /\ target_contact' = UpsertContacts(target_contact, username, contacts, K)
                    /\ Called("insert_user", "ok")
                    /\ Go
                [] fault = "target" ->
                    /\ UNCHANGED <<target, user, target_contact>>
                    /\ Called("insert_user", "caught")
                    /\ Go
                [] fault = "user" ->
                    /\ target' = [target EXCEPT ![username] = "active"]
                    /\ UNCHANGED <<user, target_contact>>
                    /\ Called("insert_user", "caught")
                    /\ Go
                [] fault = "contact" ->
                    /\ \E k \in K : \E S \in SUBSET (K \ {k}) :
                        target_contact' = UpsertContacts(target_contact, username, contacts, S)
                    /\ target' = [target EXCEPT ![username] = "active"]
                    /\ user' = user \cup {username}
                    /\ Called("insert_user", "SQLAlchemyError")
                    /\ Die("SQLAlchemyError", "insert_user")

\* a variant of the decision of update_user that never deletes
ContactOpNoDelete(db_contacts, oncall_contacts, mode) ==
    IF mode \in DOMAIN oncall_contacts /\ Truthy(oncall_contacts[mode])
    THEN IF mode \in DOMAIN db_contacts
         THEN IF oncall_contacts[mode] # db_contacts[mode] THEN "update" ELSE "none"
         ELSE "insert"
    ELSE "none"

\* what update_user does for one mode
ContactOp(db_contacts, oncall_contacts, mode) ==
    IF mode \in DOMAIN oncall_contacts /\ Truthy(oncall_contacts[mode])
    THEN IF mode \in DOMAIN db_contacts
         THEN IF oncall_contacts[mode] # db_contacts[mode] THEN "update" ELSE "none"
         ELSE "insert"
    ELSE IF mode \in DOMAIN db_contacts THEN "delete" ELSE "none"

\* the contacts of a user after the statement of update_user for one mode
ApplyContactOp(stored, oncall_contacts, mode, op) ==
    IF op = "update" THEN (IF mode \in DOMAIN stored THEN DictSet(stored, mode, oncall_contacts[mode]) ELSE stored)
    ELSE IF op = "insert" THEN DictSet(stored, mode, oncall_contacts[mode])
    ELSE IF op = "delete" THEN DictDel(stored, mode)
    ELSE stored

RECURSIVE ApplyContactOps(_, _, _, _)
ApplyContactOps(stored, db_contacts, oncall_contacts, S) ==
    IF S = {} THEN stored
    ELSE LET m == CHOOSE x \in S : TRUE
         IN  ApplyContactOps(ApplyContactOp(stored, oncall_contacts, m, ContactOp(db_contacts, oncall_contacts, m)),
                             db_contacts, oncall_contacts, S \ {m})

\* update_user for one of users_to_update.  A store error on a statement is
\* caught: the statements of the modes visited before it stay, the rest of
\* the user's modes is skipped.
UpdateUser ==
    /\ pc = "update_users"
    /\ \E username \in todo :
       LET db_contacts == iris_users[username]
           oncall_contacts == oncall_users[username]
           W == {m \in Modes : ContactOp(db_contacts, oncall_contacts, m) # "none"}
       IN  /\ todo' = todo \ {username}
           /\ \E failing \in {"none"} \cup W :
              \E S \in (IF failing = "none" THEN {W} ELSE SUBSET (W \ {failing})) :
                /\ target_contact' = [target_contact EXCEPT ![username] =
                        ApplyContactOps(target_contact[username], db_contacts, oncall_contacts, S)]
                /\ Called("update_user", IF failing = "none" THEN "ok" ELSE "caught")
    /\ UNCHANGED <<target, user, plan, plan_notification, plan_active, tables, hipchat, calls, upstream, settings, caches,
                   pc, exc, passes, locals, plan_queue, cur_team, fetched>>

\* insert_team for one of teams_to_insert; a store error is caught
InsertTeam ==
    /\ pc = "insert_teams"
    /\ \E team \in todo :
        /\ todo' = todo \ {team}
        /\ \E failed \in BOOLEAN :
            IF failed
            THEN /\ UNCHANGED target
                 /\ Called("insert_team", "caught")
            ELSE /\ target' = [target EXCEPT ![team] = "active"]
                 /\ Called("insert_team", "ok")
    /\ UNCHANGED <<user, target_contact, plan, plan_notification, plan_active, tables, hipchat, calls, upstream, settings, caches,
                   pc, exc, passes, locals, plan_queue, cur_team, fetched>>

\* bol_teams: the inserted team names without the builtin suffix and the
\* time periods
BolTeams(teams) == {StrReplaceParts(t, Range(immutable_suffix) \cup Range(timeperiods)) : t \in teams}

DefaultPlans(team) ==
    get_default_plans(config.space_to_srt_team, team, config.platform_teams, config.standby_teams,
                      config.standby_escalation_teams, config.scrumteams)

\* the template tables after get_default_plan_steps has derived these plans,
\* each from a deep copy of the table of its type
RECURSIVE TemplatesAfter(_, _)
TemplatesAfter(tpl, plans) ==
    IF plans = <<>> THEN tpl
    ELSE LET p == Head(plans)
             key == IF p.type \in {Withsrt24x7, WithsrtBusinesshours} THEN "scrumteam"
                    ELSE IF p.type \in {WithmodStandby, WithmodBusinesshours} THEN "standby"
                    ELSE "private"
         IN  TemplatesAfter([tpl EXCEPT ![key] = deepcopy(@, p.all_steps)], Tail(plans))

\* the next team of a loop over teams: its default plans are derived
NextTeam(phase) ==
    /\ pc = phase
    /\ plan_queue = <<>>
    /\ \E team \in todo :
        LET plans == DefaultPlans(team) IN
        IF plans.exc # "none"
        THEN Die(plans.exc, "get_default_plans") /\ UNCHANGED templates
        ELSE /\ todo' = todo \ {team}
             /\ cur_team' = team
             /\ plan_queue' = plans.val
             /\ templates' = TemplatesAfter(templates, plans.val)
             /\ UNCHANGED <<pc, exc, locals>>
    /\ NoCall
    /\ UNCHANGED <<store, tables, hipchat, calls, upstream, NOOP, config, metrics_task, caches, passes, fetched>>

PlanDb == [plan |-> plan, plan_notification |-> plan_notification, plan_active |-> plan_active]

Cache == [target_roles |-> target_roles, priorities |-> priorities]

\* one call of create_plan for the plan at the head of the queue
CallCreatePlan(op) ==
    LET p == Head(plan_queue) IN
    \E fault \in CreatePlanFaults(p.all_steps) :
        LET r == create_plan(PlanDb, target, target_role, Cache, p.name, p.all_steps,
                             p.step_count, p.description, fault)
        IN  /\ plan' = r.db.plan
            /\ plan_notification' = r.db.plan_notification
            /\ plan_active' = r.db.plan_active
            /\ Called(op, r.exc)
            /\ IF r.exc # "none"
               THEN Die(r.exc, "create_plan")
               ELSE /\ plan_queue' = Tail(plan_queue)
                    /\ UNCHANGED <<pc, exc, locals, todo, cur_team>>

\* Provision default plans for our new targets
ProvisionTeam == NextTeam("provision_plans")

ProvisionPlan ==
    /\ pc = "provision_plans"
    /\ plan_queue # <<>>
    /\ CallCreatePlan("create_plan_new")
    /\ UNCHANGED <<target, user, target_contact, tables, hipchat, calls, upstream, settings, caches, passes, fetched>>

\* Update plans: the plans of the teams present on both sides
UpdateTeam == NextTeam("update_plans")

\* the plan at the head of the queue is looked up and validated, and created
\* again when it is absent or not valid
UpdatePlan ==
    /\ pc = "update_plans"
    /\ plan_queue # <<>>
    /\ UNCHANGED <<target, user, target_contact, tables, hipchat, calls, upstream, settings, caches, passes, fetched>>
    /\ LET default_plan == Head(plan_queue)
           found == get_plan(plan, plan_active, default_plan.name)
       IN  IF found = {}
           THEN CallCreatePlan("create_plan_update")
           ELSE \E id \in found :
                LET actual_plan == [id |-> id, name |-> plan[id].name,
                                    description |-> plan[id].description,
                                    step_count |-> plan[id].step_count]
                    v == valid_plan(target, plan_notification, priority, target_role, actual_plan,
                                    cur_team, default_plan, default_plan.type)
                IN  IF v.exc # "none"
                    THEN /\ Die(v.exc, "valid_plan")
                         /\ NoCall
                         /\ UNCHANGED <<plan, plan_notification, plan_active>>
                    ELSE IF ~v.val
                    THEN CallCreatePlan("create_plan_update")
                    ELSE /\ plan_queue' = Tail(plan_queue)
                         /\ NoCall
                         /\ UNCHANGED <<plan, plan_notification, plan_active, pc, exc, locals, todo, cur_team>>

\* a row of plan_notification refers to the target (foreign key)
Referenced(pn, name) == \E i \in DOMAIN pn : pn[i].target_id.name = name

\* how the store can answer prune_target: the row is deleted; the delete
\* meets an integrity conflict and the row is marked inactive; the delete
\* fails with another error, which is caught; the delete meets an integrity
\* conflict and the update fails, which nothing catches
PruneOutcomes(pn, name) ==
    (IF Referenced(pn, name) THEN {} ELSE {"deleted"}) \cup {"inactive", "caught", "update_failed"}

\* prune_target: target, user and target_contact afterwards
prune_target(name, outcome) ==
    /\ target' = IF outcome = "deleted" THEN [target EXCEPT ![name] = "absent"]
                 ELSE IF outcome = "inactive" THEN [target EXCEPT ![name] = "inactive"]
                 ELSE target
    /\ user' = IF outcome = "deleted" THEN user \ {name} ELSE user
    /\ target_contact' = IF outcome = "deleted" /\ name \in UserNames
                         THEN [target_contact EXCEPT ![name] = EmptyDict]
                         ELSE target_contact

PruneResult(outcome) ==
    IF outcome = "update_failed" THEN "SQLAlchemyError"
    ELSE IF outcome = "caught" THEN "caught" ELSE "ok"

PruneUser ==
    /\ pc = "purge_users"
    /\ \E username \in todo : \E outcome \in PruneOutcomes(plan_notification, username) :
        /\ prune_target(username, outcome)
        /\ Called("prune_user", PruneResult(outcome))
        /\ IF outcome = "update_failed"
           THEN Die("SQLAlchemyError", "prune_target")
           ELSE /\ todo' = todo \ {username}
                /\ UNCHANGED <<pc, exc, locals, plan_queue, cur_team>>
    /\ UNCHANGED <<plan, plan_notification, plan_active, tables, hipchat, calls, upstream, settings, caches, passes, fetched>>

\* prune_target for one of teams_to_deactivate, then its default plans are
\* derived
PruneTeam ==
    /\ pc = "purge_teams"
    /\ plan_queue = <<>>
    /\ \E team \in todo : \E outcome \in PruneOutcomes(plan_notification, team) :
        LET plans == DefaultPlans(team) IN
        /\ prune_target(team, outcome)
        /\ Called("prune_team", PruneResult(outcome))
        /\ IF outcome = "update_failed"
           THEN Die("SQLAlchemyError", "prune_target") /\ UNCHANGED templates
           ELSE IF plans.exc # "none"
           THEN Die(plans.exc, "get_default_plans") /\ UNCHANGED templates
           ELSE /\ todo' = todo \ {team}
                /\ cur_team' = team
                /\ plan_queue' = plans.val
                /\ templates' = TemplatesAfter(templates, plans.val)
                /\ UNCHANGED <<pc, exc, locals>>
    /\ UNCHANGED <<plan, plan_notification, plan_active, tables, hipchat, calls, upstream, NOOP, config, metrics_task, caches, passes, fetched>>

\* deactivate_plan: DELETE FROM plan_active WHERE plan_id = id
deactivate_plan(active, plan_id) ==
    [n \in {x \in DOMAIN active : active[x] # plan_id} |-> active[n]]

\* the plan at the head of the queue of a deactivated team: its id is looked
\* up by name and the active pointer to that id is removed
DeactivatePlan ==
    /\ pc = "purge_teams"
    /\ plan_queue # <<>>
    /\ LET ids == get_plan_id(plan, Head(plan_queue).name) IN
       IF ids = {}
       THEN /\ plan_queue' = Tail(plan_queue)
            /\ NoCall
            /\ UNCHANGED <<plan_active, pc, exc, locals, todo, cur_team>>
       ELSE \E plan_id \in ids : \E failed \in BOOLEAN :
            IF failed
            THEN /\ Called("deactivate_plan", "SQLAlchemyError")
                 /\ Die("SQLAlchemyError", "deactivate_plan")
                 /\ UNCHANGED plan_active
            ELSE /\ plan_active' = deactivate_plan(plan_active, plan_id)
                 /\ plan_queue' = Tail(plan_queue)
                 /\ Called("deactivate_plan", "ok")
                 /\ UNCHANGED <<pc, exc, locals, todo, cur_team>>
    /\ UNCHANGED <<target, user, target_contact, plan, plan_notification, tables, hipchat, calls, upstream, settings, caches,
                   passes, fetched>>

\* a variant of PhaseAfter: the purge loops run before the team loops
PhaseAfterPurgeFirst(phase) ==
    CASE phase = "insert_users" -> "update_users"
      [] phase = "update_users" -> "purge_users"
      [] phase = "purge_users" -> "purge_teams"
      [] phase = "purge_teams" -> "insert_teams"
      [] phase = "insert_teams" -> "provision_plans"
      [] phase = "provision_plans" -> "update_plans"
      [] phase = "update_plans" -> "return"

\* the loops of sync_from_oncall in the order of the code; "return" is the
\* end of the function
PhaseAfter(phase) ==
    CASE phase = "insert_users" -> "update_users"
      [] phase = "update_users" -> "insert_teams"
      [] phase = "insert_teams" -> "provision_plans"
      [] phase = "provision_plans" -> "update_plans"
      [] phase = "update_plans" -> "purge_users"
      [] phase = "purge_users" -> "purge_teams"
      [] phase = "purge_teams" -> "return"

Phases == {"insert_users", "update_users", "insert_teams", "provision_plans", "update_plans",
           "purge_users", "purge_teams"}

\* what the loop of a phase iterates over
TodoOf(phase) ==
    CASE phase = "insert_users" -> users_to_insert
      [] phase = "update_users" -> users_to_update
      [] phase = "insert_teams" -> teams_to_insert
      [] phase = "provision_plans" -> BolTeams(teams_to_insert)
      [] phase = "update_plans" -> teams_to_update
      [] phase = "purge_users" -> users_to_mark_inactive
      [] phase = "purge_teams" -> teams_to_deactivate

\* a loop is finished: the next one begins.  After the two user loops the
\* report is logged and NOOP is tested; after the last loop the function
\* returns.
PhaseDone ==
    /\ pc \in Phases
    /\ todo = {}
    /\ plan_queue = <<>>
    /\ NoCall
    /\ UNCHANGED <<store, tables, hipchat, calls, upstream, settings, caches, passes, fetched>>
    /\ IF (pc = "update_users" /\ NOOP) \/ PhaseAfter(pc) = "return"
       THEN Return
       ELSE /\ pc' = PhaseAfter(pc)
            /\ todo' = TodoOf(PhaseAfter(pc))
            /\ UNCHANGED <<exc, locals, plan_queue, cur_team>>

\* main: sleep(nap_time), then the next iteration
Sleep ==
    /\ pc = "sleep"
    /\ pc' = "main_loop"
    /\ passes' = passes + 1
    /\ fetched' = [users |-> "none", teams |-> "none"]
    /\ step_op' = "none"
    /\ step_result' = "none"
    /\ ops' = {}
    /\ UNCHANGED store_errors
    /\ UNCHANGED <<store, tables, hipchat, calls, upstream, settings, caches, exc, locals, todo, plan_queue, cur_team>>

Next ==
    \/ LoopHead
    \/ SyncStart
    \/ InsertUser
    \/ PhaseDone
    \/ UpdateUser
    \/ InsertTeam
    \/ ProvisionTeam
    \/ ProvisionPlan
    \/ UpdateTeam
    \/ UpdatePlan
    \/ PruneUser
    \/ PruneTeam
    \/ DeactivatePlan
    \/ Sleep

Spec == Init /\ [][Next]_vars

\* ------------------------------------------- the loop and the metrics task
\* main runs two greenlets, the worker loop and metrics.emit_forever, and
\* every blocking call of the loop (monkey.patch_all) lets the other one run.
\* The metrics task shares nothing with the loop but the greenlet object that
\* the loop tests at its head: all the loop can see of it is that it died.
MetricsTaskFails ==
    /\ pc # "exited"
    /\ metrics_task = "alive"
    /\ metrics_task' = "dead"
    /\ UNCHANGED <<store, tables, hipchat, calls, upstream, NOOP, config, templates, caches, pc, exc, passes, locals,
                   todo, plan_queue, cur_team, fetched, step_op, step_result, ops, store_errors>>

\* the daemon started on an empty store, without --noop, with a roster URL
\* and without scrum-team table or preset users
LoopInit == Init /\ user = {} /\ ~NOOP /\ config = Config(TRUE, {}, NoScrumTable)

LoopNext ==
    \/ Next
    \/ MetricsTaskFails

SpecLoop == LoopInit /\ [][LoopNext]_vars

\* ------------------------------------------------ the loop on a steady roster
\* the daemon started without --noop against a roster service that gives the
\* same answer to every user query and the same answer to every team query
SteadyInit ==
    /\ \E u \in UserResponses : \E t \in TeamResponses : Started([users |-> {u}, teams |-> {t}])
    /\ ~NOOP

SpecSteady == SteadyInit /\ [][Next]_vars

\* -------------------------------------------------------- the hipchat vendor
\* A destination is the sequence of the atoms of the python string: words,
\* "@", ":" and ";".  '12341:a20;@testuser' is
\* <<"12341", ":", "a20", ";", "@", "testuser">>, and '' is << >>.

\* parse_destination: Ret(<<room_id, token, mention>>) or the exception raised
parse_destination(self, destination_) ==
    LET \* destination.split(";")
        RECURSIVE split(_, _)
        split(rest, part) ==
            IF rest = <<>> THEN <<part>>
            ELSE IF Head(rest) = ";" THEN <<part>> \o split(Tail(rest), <<>>)
            ELSE split(Tail(rest), Append(part, Head(rest)))
        dparts == split(destination_, <<>>)
    IN  IF destination_ # <<>> /\ Head(destination_) = "@"
        THEN Ret(<<self.room_id, self.token, destination_>>)
        ELSE IF ";" \in Range(destination_) THEN
            \* dparts[3] of a list of three parts
            IF Len(dparts) = 3 THEN Raise("IndexError")
            ELSE IF Len(dparts) = 2 THEN Ret(<<dparts[1], dparts[2], <<>>>>)
            ELSE Ret(<<self.room_id, self.token, <<>>>>)
        ELSE Ret(<<self.room_id, self.token, <<>>>>)

\* the room and the token of the configuration of the vendor
HipchatConfig == [room_id |-> <<"999">>, token |-> <<"secret">>]

\* send_message: the destination of the message is parsed
send_message ==
    /\ parsed = NoMessage
    /\ parsed' = parse_destination(HipchatConfig, destination)
    /\ UNCHANGED <<destination, calls, upstream, store, tables, settings, caches, pc, exc, passes, locals,
                   todo, plan_queue, cur_team, fetched, step_op, step_result, ops, store_errors>>

\* the vendor is given a message with any destination of up to MaxDestLen
\* atoms, in a process that does not run the worker loop
HipchatInit ==
    /\ destination \in UNION { [1..n -> {"12341", "a20", "testuser", "@", ":", ";"}] : n \in 0..MaxDestLen }
    /\ parsed = NoMessage
    /\ NoCalls
    /\ upstream = AnyAnswer
    /\ store_errors = FALSE
    /\ templates = TemplateTables
    /\ metrics_task = "dead"
    /\ NOOP = FALSE
    /\ config = Config(FALSE, {}, NoScrumTable)
    /\ target = EmptyStore.target
    /\ user = EmptyStore.user
    /\ target_contact = EmptyStore.target_contact
    /\ plan = EmptyStore.plan
    /\ plan_notification = EmptyStore.plan_notification
    /\ plan_active = EmptyStore.plan_active
    /\ target_role = FullRoleTable
    /\ priority = PriorityTable
    /\ priorities = EmptyDict
    /\ target_roles = EmptyDict
    /\ pc = "exited"
    /\ exc = [name |-> "none", where |-> "none"]
    /\ passes = 0
    /\ oncall_users = EmptyDict
    /\ oncall_team_names = {}
    /\ iris_users = EmptyDict
    /\ users_to_insert = {}
    /\ users_to_update = {}
    /\ users_to_mark_inactive = {}
    /\ teams_to_insert = {}
    /\ teams_to_update = {}
    /\ teams_to_deactivate = {}
    /\ todo = {}
    /\ plan_queue = <<>>
    /\ cur_team = <<>>
    /\ fetched = [users |-> "none", teams |-> "none"]
    /\ step_op = "none"
    /\ step_result = "none"
    /\ ops = {}

SpecHipchat == HipchatInit /\ [][send_message]_vars

\* ------------------------------------------ calls outside the worker loop
\* a process that does not run the worker loop and is given no message
Halted ==
    /\ destination = <<>>
    /\ parsed = NoMessage
    /\ upstream = AnyAnswer
    /\ store_errors = FALSE
    /\ templates = TemplateTables
    /\ metrics_task = "dead"
    /\ NOOP = FALSE
    /\ config = Config(FALSE, {}, NoScrumTable)
    /\ target = EmptyStore.target
    /\ user = EmptyStore.user
    /\ target_contact = EmptyStore.target_contact
    /\ plan = EmptyStore.plan
    /\ plan_notification = EmptyStore.plan_notification
    /\ plan_active = EmptyStore.plan_active
    /\ target_role = FullRoleTable
    /\ priority = PriorityTable
    /\ priorities = EmptyDict
    /\ target_roles = EmptyDict
    /\ pc = "exited"
    /\ exc = [name |-> "none", where |-> "none"]
    /\ passes = 0
    /\ oncall_users = EmptyDict
    /\ oncall_team_names = {}
    /\ iris_users = EmptyDict
    /\ users_to_insert = {}
    /\ users_to_update = {}
    /\ users_to_mark_inactive = {}
    /\ teams_to_insert = {}
    /\ teams_to_update = {}
    /\ teams_to_deactivate = {}
    /\ todo = {}
    /\ plan_queue = <<>>
    /\ cur_team = <<>>
    /\ fetched = [users |-> "none", teams |-> "none"]
    /\ step_op = "none"
    /\ step_result = "none"
    /\ ops = {}

\* same_steps is called as valid_plan calls it, with two lists of steps
call_same_steps ==
    /\ same = NoMessage
    /\ same' = Ret(same_steps(list_of_steps, steps_found))
    /\ UNCHANGED <<list_of_steps, steps_found, current_dict, past_dict, differ, store, tables, hipchat, upstream,
                   settings, caches, pc, exc, passes, locals, todo, plan_queue, cur_team, fetched,
                   step_op, step_result, ops, store_errors>>

\* the two lists are any lists of up to MaxSteps steps, taken from three
\* steps of the scrum-team table
SameStepsInit ==
    /\ Halted
    /\ LET rows == {TemplateTables.scrumteam[1][1], TemplateTables.scrumteam[1][2],
                    TemplateTables.scrumteam[2][2]}
           lists == UNION { [1..n -> rows] : n \in 0..MaxSteps }
       IN  list_of_steps \in lists /\ steps_found \in lists
    /\ same = NoMessage
    /\ current_dict = EmptyDict
    /\ past_dict = EmptyDict
    /\ differ = NoMessage

SpecSameSteps == SameStepsInit /\ [][call_same_steps]_vars

\* a variant of DictDiffer whose changed() does not compare the values
DictDifferAllChanged(current_dict_, past_dict_) ==
    LET set_current == DOMAIN current_dict_
        set_past == DOMAIN past_dict_
        intersect == set_current \cap set_past
    IN  [added |-> set_current \ intersect,
         removed |-> set_past \ intersect,
         changed |-> intersect,
         unchanged |-> {o \in intersect : past_dict_[o] = current_dict_[o]}]

\* DictDiffer(current_dict, past_dict): what added(), removed(), changed()
\* and unchanged() of the object return
DictDiffer(current_dict_, past_dict_) ==
    LET set_current == DOMAIN current_dict_
        set_past == DOMAIN past_dict_
        intersect == set_current \cap set_past
    IN  [added |-> set_current \ intersect,
         removed |-> set_past \ intersect,
         changed |-> {o \in intersect : past_dict_[o] # current_dict_[o]},
         unchanged |-> {o \in intersect : past_dict_[o] = current_dict_[o]}]

\* a DictDiffer is constructed and its four methods are called
call_DictDiffer ==
    /\ differ = NoMessage
    /\ differ' = Ret(DictDiffer(current_dict, past_dict))
    /\ UNCHANGED <<list_of_steps, steps_found, same, current_dict, past_dict, store, tables, hipchat, upstream,
                   settings, caches, pc, exc, passes, locals, todo, plan_queue, cur_team, fetched,
                   step_op, step_result, ops, store_errors>>

\* the two dicts are any dicts with keys among three contact modes and two
\* destinations as values
DictDifferInit ==
    /\ Halted
    /\ LET dicts == UNION { [K -> {"+1 555", "+1 666"}] : K \in SUBSET {"sms", "call", "email"} }
       IN  current_dict \in dicts /\ past_dict \in dicts
    /\ differ = NoMessage
    /\ list_of_steps = <<>>
    /\ steps_found = <<>>
    /\ same = NoMessage

SpecDictDiffer == DictDifferInit /\ [][call_DictDiffer]_vars

\* ------------------------------------------- the update loop on stored plans
\* The update loop of a pass (`for team in teams_to_update`), started on the
\* stores of a deployment in which the teams that the plans escalate to
\* exist: this is where the comparator meets plans of every type.
PlanTeams ==
    { TeamWorkhours, <<"eod", "workhours", "builtin">>, <<"other", "workhours", "builtin">>,
      <<"team1a", "x", "workhours", "builtin">> }

\* the team targets of the deployment
PlanTargets ==
    TeamNames \cup PlanTeams
    \cup { mod_team \o <<h>> \o immutable_suffix : h \in {"24x7", "businesshours", "standby"} }
    \cup { middleware_team \o <<h>> \o immutable_suffix : h \in {"businesshours", "standby"} }
    \cup { <<"srt", "retail">> \o immutable_suffix }

\* the configurations: the base name of a team may be listed in more than one
\* of platform_teams, standby_teams and standby_escalation_teams, and the
\* space of a scrum team may be missing from space_to_srt_team
PlanConfigs ==
    { [Config(TRUE, {}, sc) EXCEPT !.platform_teams = @ \cup p, !.standby_teams = @ \cup s,
                                   !.standby_escalation_teams = @ \cup e] :
        sc \in ScrumTables \cup { [scrumteams |-> [t \in {<<"team1a">>} |-> [space |-> "retail"]],
                                   space_to_srt_team |-> EmptyDict] },
        p \in {{}, {<<"team1a">>}}, s \in {{}, {<<"team1a">>}},
        e \in {{}, {<<"team1a">>}, {<<"eod">>}} }

\* the plan tables the update loop may find for a list of derived plans: no
\* plan; every plan as create_plan writes it; and that with the two rows of
\* a step level in the other order, with one column of a step or of a plan
\* changed, or without the rows of the last level of a plan
PlanStores(tgt, plans) ==
    LET none == [plan |-> <<>>, plan_notification |-> <<>>, plan_active |-> EmptyDict]
        cache == [target_roles |-> [n \in {r.name : r \in FullRoleTable} |->
                                       (CHOOSE r \in FullRoleTable : r.name = n).id],
                  priorities |-> PriorityTable]
        RECURSIVE written(_, _)
        written(db, ps) ==
            IF ps = <<>> THEN db
            ELSE written(create_plan(db, tgt, FullRoleTable, cache, Head(ps).name, Head(ps).all_steps,
                                     Head(ps).step_count, Head(ps).description, NoFault).db, Tail(ps))
        w == written(none, plans)
        pn == w.plan_notification
        other(r) ==
            { [r EXCEPT !.wait = @ + 1], [r EXCEPT !.repeat = @ + 1],
              [r EXCEPT !.template = "other"],
              [r EXCEPT !.priority_id = IF @ = PriorityTable["high"] THEN PriorityTable["urgent"]
                                        ELSE PriorityTable["high"]],
              [r EXCEPT !.role_id = IF @ = RolePrimary.id THEN RoleExcludeHolidays.id
                                    ELSE RolePrimary.id],
              [r EXCEPT !.target_id = [name |-> IF @.name = Team24x7 THEN TeamBusinesshours ELSE Team24x7,
                                       type |-> "team"]] }
    IN  {none, w}
        \cup { [w EXCEPT !.plan_notification = [pn EXCEPT ![i] = pn[i + 1], ![i + 1] = pn[i]]] :
                 i \in {j \in 1..(Len(pn) - 1) : pn[j].plan_id = pn[j + 1].plan_id
                                                 /\ pn[j].step = pn[j + 1].step} }
        \cup UNION { { [w EXCEPT !.plan_notification[i] = r] : r \in other(pn[i]) } : i \in DOMAIN pn }
        \cup { [w EXCEPT !.plan_notification =
                    SelectSeq(pn, LAMBDA r : ~(r.plan_id = id /\ r.step = w.plan[id].step_count))] :
                 id \in {j \in DOMAIN w.plan : w.plan[j].step_count > 1} }
        \cup { [w EXCEPT !.plan[id].description = <<"Simple plan">>] : id \in DOMAIN w.plan }
        \cup { [w EXCEPT !.plan[id].step_count = @ + 1] : id \in DOMAIN w.plan }

PlanInit ==
    /\ destination = <<>>
    /\ parsed = NoMessage
    /\ NoCalls
    /\ upstream = AnyAnswer
    /\ store_errors = FALSE
    /\ templates = TemplateTables
    /\ metrics_task = "alive"
    /\ NOOP = FALSE
    /\ config \in PlanConfigs
    /\ target = [n \in UserNames \cup PlanTargets |-> IF n \in UserNames THEN "absent" ELSE "active"]
    /\ user = {}
    /\ target_contact = NoContacts
    /\ target_role = FullRoleTable
    /\ priority = PriorityTable
    /\ priorities = PriorityTable
    /\ target_roles = [n \in {r.name : r \in FullRoleTable} |->
                          (CHOOSE r \in FullRoleTable : r.name = n).id]
    /\ \E team \in PlanTeams :
        /\ teams_to_update = {team}
        /\ todo = {team}
        /\ \E s \in PlanStores(target, IF DefaultPlans(team).exc = "none"
                                        THEN DefaultPlans(team).val ELSE <<>>) :
            /\ plan = s.plan
            /\ plan_notification = s.plan_notification
            /\ plan_active = s.plan_active
    /\ pc = "update_plans"
    /\ exc = [name |-> "none", where |-> "none"]
    /\ passes = 1
    /\ oncall_users = EmptyDict
    /\ oncall_team_names = {}
    /\ iris_users = EmptyDict
    /\ users_to_insert = {}
    /\ users_to_update = {}
    /\ users_to_mark_inactive = {}
    /\ teams_to_insert = {}
    /\ teams_to_deactivate = {}
    /\ plan_queue = <<>>
    /\ cur_team = <<>>
    /\ fetched = [users |-> "ok", teams |-> "ok"]
    /\ step_op = "none"
    /\ step_result = "none"
    /\ ops = {}

PlanNext ==
    \/ UpdateTeam
    \/ UpdatePlan

SpecPlan == PlanInit /\ [][PlanNext]_vars

\* ------------------------------------------------------------------ claims
MutatingOps == {"insert_user", "update_user", "insert_team", "create_plan_new",
                "create_plan_update", "prune_user", "prune_team", "deactivate_plan"}

\* C1: when the user fetch gives an empty result, the pass changes nothing
\* in the store: no step of a pass whose user fetch was empty changes a
\* target, a contact, a plan, a step or an active pointer
C1_EmptyRosterNoMutation ==
    [][fetched'.users = "empty" => (store' = store /\ pc' \notin Phases)]_vars

\* a pass was aborted on an empty roster although preset users are configured
\* and a local user is active (who is in no roster)
C1_Witness ==
    /\ fetched.users = "empty"
    /\ pc = "sleep"
    /\ config.preset_users # {}
    /\ \E u \in UserNames : target[u] = "active"

\* C2: in NOOP mode no step changes the store
C2_NoopNoMutation == [][NOOP => store' = store]_vars

\* C3: when the team fetch gives an empty result and the user fetch does not,
\* no step of the pass deletes or deactivates a team target or removes an
\* active pointer
C3_EmptyTeamsNoPurge ==
    [][(fetched'.users = "ok" /\ fetched'.teams = "empty") =>
        /\ \A t \in TeamNames : target[t] = "active" => target'[t] = "active"
        /\ \A n \in DOMAIN plan_active : n \in DOMAIN plan_active']_vars

\* the phase of the pass an operation belongs to
Rank(op) ==
    CASE op = "insert_user" -> 1
      [] op = "update_user" -> 2
      [] op = "insert_team" -> 3
      [] op = "create_plan_new" -> 4
      [] op = "create_plan_update" -> 5
      [] op \in {"prune_user", "prune_team", "deactivate_plan"} -> 6

\* C4: the operation of a step belongs to a phase that is not earlier than
\* the phase of any operation the pass has called before
C4_PhaseOrder ==
    step_op \in MutatingOps => \A op \in ops : Rank(op) <= Rank(step_op)

\* a pass has inserted a user, updated a user, validated plans and is
\* deactivating the plans of a team
C4_Witness ==
    /\ {"insert_user", "update_user", "create_plan_update", "prune_team"} \subseteq ops
    /\ step_op = "deactivate_plan"

\* C5: a validation error of create_plan does not leave sync_from_oncall
C5_ValidationErrorContained ==
    ~(pc = "exited" /\ exc.name = "HTTPBadRequest")

\* C6: no error during a pass ends the process
C6_ProcessNeverEnds == pc # "exited"

\* C7: a store error on one operation does not end the pass
C7_StoreErrorContained ==
    ~(pc = "exited" /\ exc.name \in {"SQLAlchemyError", "IntegrityError"})

\* C8: the fetch operations never raise and give an empty result on an answer
\* of an unexpected schema
C8_FetchTotal ==
    /\ fetched.users # "raised"
    /\ fetched.teams \notin {"raised", "garbage"}

\* C9: a number that cannot be parsed never ends the pass
C9_BadNumberContained ==
    ~(pc = "exited" /\ exc.name = "NumberParseException")

\* C10: a step by which create_plan fails with a validation error leaves the
\* rows of plan and plan_notification and the active pointers as they were
C10_CreatePlanAllOrNothing ==
    [][(step_op' \in {"create_plan_new", "create_plan_update"} /\ step_result' = "HTTPBadRequest")
        => UNCHANGED <<plan, plan_notification, plan_active>>]_vars

\* create_plan failed on the second step of a plan, after the plan row and the
\* first step were written by its session
C10_Witness ==
    /\ step_op = "create_plan_new"
    /\ step_result = "HTTPBadRequest"
    /\ pc = "exited"
    /\ exc = [name |-> "HTTPBadRequest", where |-> "create_plan"]
    /\ config.scrumteams # EmptyDict
    /\ target_role = FullRoleTable
    /\ target[TeamWorkhours] = "active"

\* the position of a create_plan call: a plan is at the head of the queue of
\* one of the two plan loops
AtCreatePlan == pc \in {"provision_plans", "update_plans"} /\ plan_queue # <<>>

\* a step is valid: its target name resolves to a target and the role cache
\* knows its role as a role of the kind of that target
StepIsValid(step) ==
    /\ TargetStatus(target, step.target) # "absent"
    /\ step.role \in DOMAIN target_roles
    /\ \E r \in target_role : r.id = target_roles[step.role] /\ r.type = TypeOf(step.target)

\* the positions of the steps of a plan that are not valid
InvalidSteps(all_steps) ==
    LET flat == FlatSteps(all_steps, 1)
    IN  {i \in DOMAIN flat : ~StepIsValid(flat[i].step)}

Min(S) == CHOOSE x \in S : \A y \in S : x <= y

\* C11: whenever create_plan is called for a plan with a step that is not
\* valid, it raises (a validation error, unless the store fails on an earlier
\* statement), its session has inserted only steps before the first step
\* that is not valid, and the store keeps none of them
C11_ValidateBeforeInsert ==
    AtCreatePlan =>
        LET p == Head(plan_queue)
            bad == InvalidSteps(p.all_steps)
        IN  bad # {} =>
            \A fault \in CreatePlanFaults(p.all_steps) :
                LET session == CreatePlanSession(PlanDb, target, target_role, Cache, p.name,
                                                 p.all_steps, p.step_count, p.description, fault)
                    r == create_plan(PlanDb, target, target_role, Cache, p.name,
                                     p.all_steps, p.step_count, p.description, fault)
                IN  /\ session.exc # "none"
                    /\ fault = NoFault => session.exc = "HTTPBadRequest"
                    /\ Len(session.db.plan_notification) - Len(plan_notification) < Min(bad)
                    /\ r.exc = session.exc
                    /\ r.db = PlanDb

\* create_plan is about to be called for a plan whose first step is valid
\* and whose second step has a target that does not exist
C11_Witness ==
    /\ AtCreatePlan
    /\ InvalidSteps(Head(plan_queue).all_steps) # {}
    /\ Min(InvalidSteps(Head(plan_queue).all_steps)) = 2

\* C12: prune_target never fails the pass: no exception of prune_target ends
\* sync_from_oncall, every call of it returns (the target deleted, marked
\* inactive, or the error of the delete logged)
C12_PruneNeverFails ==
    /\ ~(pc = "exited" /\ exc.where = "prune_target")
    /\ step_op \in {"prune_user", "prune_team"} => step_result \in {"ok", "caught"}

\* C13: when the pass has handled a plan derived for a deactivated team
\* (looked its id up and called deactivate_plan), the name of that plan has no
\* active pointer
C13_DeactivatedTeamPlansInactive ==
    [][(pc = "purge_teams" /\ plan_queue # <<>> /\ pc' # "exited")
        => Head(plan_queue).name \notin DOMAIN plan_active']_vars

\* C14: every create_plan call of the provisioning loop, made after every
\* team of teams_to_insert was inserted, is for a plan whose steps are all
\* valid, and succeeds when the store does not fail
C14_NewTeamPlansSucceed ==
    (/\ pc = "provision_plans"
     /\ plan_queue # <<>>
     /\ \A t \in teams_to_insert : target[t] = "active")
    => LET p == Head(plan_queue)
       IN  /\ InvalidSteps(p.all_steps) = {}
           /\ create_plan(PlanDb, target, target_role, Cache, p.name, p.all_steps,
                          p.step_count, p.description, NoFault).exc = "none"

\* the plan at the head of the queue has no active stored plan, or valid_plan
\* reports the stored plan its active pointer refers to as not valid
StoredPlanAbsentOrInvalid ==
    LET p == Head(plan_queue) IN
    \/ p.name \notin DOMAIN plan_active
    \/ LET id == plan_active[p.name]
           stored == [id |-> id, name |-> plan[id].name, description |-> plan[id].description,
                      step_count |-> plan[id].step_count]
           v == valid_plan(target, plan_notification, priority, target_role, stored,
                           cur_team, p, p.type)
       IN  v.exc = "none" /\ ~v.val

\* C15: a step of the update loop calls create_plan for the plan at the head
\* of the queue if and only if the plan has no active stored plan or
\* valid_plan reports the stored plan invalid
C15_RegenerateIffAbsentOrInvalid ==
    [][(pc = "update_plans" /\ plan_queue # <<>>)
        => ((step_op' = "create_plan_update") <=> StoredPlanAbsentOrInvalid)]_vars

\* the update loop has regenerated a plan in this pass and is now at a plan
\* that is stored, active and valid
C15_Witness ==
    /\ pc = "update_plans"
    /\ plan_queue # <<>>
    /\ "create_plan_update" \in ops
    /\ Head(plan_queue).name \in DOMAIN plan_active
    /\ ~StoredPlanAbsentOrInvalid

\* the update loop is at a derived plan that has an active stored plan
AtStoredPlan ==
    pc = "update_plans" /\ plan_queue # <<>> /\ Head(plan_queue).name \in DOMAIN plan_active

\* the row of `plan` the active pointer of that plan refers to, with its id
StoredPlan ==
    LET id == plan_active[Head(plan_queue).name]
    IN  [id |-> id, name |-> plan[id].name, description |-> plan[id].description,
         step_count |-> plan[id].step_count]

\* what valid_plan answers for the plan at the head of the queue
ValidPlanAnswer ==
    valid_plan(target, plan_notification, priority, target_role, StoredPlan, cur_team,
               Head(plan_queue), Head(plan_queue).type)

\* the steps of level l of a derived plan, target names resolved to ids
CanonicalSteps(p, l) ==
    [i \in DOMAIN p.all_steps[l] |-> [p.all_steps[l][i] EXCEPT !.target = get_target(target, @)]]

\* the stored steps of level l of the plan with this id in row order,
\* priority and role ids resolved to names
StoredSteps(id, l) ==
    LET rows == SelectSeq(plan_notification, LAMBDA r : r.plan_id = id /\ r.step = l)
    IN  [i \in DOMAIN rows |->
            [priority |-> get_priority_id(priority, rows[i].priority_id),
             repeat |-> rows[i].repeat,
             role |-> get_target_role_name(target_role, rows[i].role_id),
             target |-> rows[i].target_id,
             template |-> rows[i].template,
             wait |-> rows[i].wait]]

\* the step levels the stored plan with this id has rows for
StoredLevels(id) == {plan_notification[i].step : i \in {j \in DOMAIN plan_notification :
                                                          plan_notification[j].plan_id = id}}

IsPermutation(a, b) ==
    /\ Len(a) = Len(b)
    /\ \E f \in [DOMAIN a -> DOMAIN a] :
        /\ \A i, j \in DOMAIN a : f[i] = f[j] => i = j
        /\ \A i \in DOMAIN a : a[i] = b[f[i]]

\* the stored plan is the derived plan, but for the order of the steps
\* inside the step levels
StoredMatchesUpToOrder ==
    LET p == Head(plan_queue)
        id == StoredPlan.id
    IN  /\ StoredPlan.description = p.description
        /\ StoredPlan.step_count = p.step_count
        /\ StoredLevels(id) = DOMAIN p.all_steps
        /\ \A l \in DOMAIN p.all_steps : IsPermutation(StoredSteps(id, l), CanonicalSteps(p, l))

\* C16: a stored plan that is the derived plan but for the order of the steps
\* inside a step level is reported valid by valid_plan, and the step of the
\* update loop does not call create_plan and leaves the plan tables alone
C16_StepOrderInsensitive ==
    [][(AtStoredPlan /\ StoredMatchesUpToOrder)
        => /\ ValidPlanAnswer = Ret(TRUE)
           /\ step_op' # "create_plan_update"
           /\ UNCHANGED <<plan, plan_notification, plan_active>>]_vars

\* the first level of the stored plan has two steps, stored as [B, A] where
\* the derived plan has [A, B]
C16_Witness ==
    /\ AtStoredPlan
    /\ StoredMatchesUpToOrder
    /\ Len(CanonicalSteps(Head(plan_queue), 1)) = 2
    /\ StoredSteps(StoredPlan.id, 1) # CanonicalSteps(Head(plan_queue), 1)
    /\ StoredSteps(StoredPlan.id, 1) = Reverse(CanonicalSteps(Head(plan_queue), 1))

\* C17: when a step of the update loop has stored a derived plan with a
\* successful create_plan, valid_plan reports the plan the active pointer now
\* refers to as valid against the same derived plan
C17_ComparatorReflexive ==
    [][(pc = "update_plans" /\ plan_queue # <<>>
            /\ step_op' = "create_plan_update" /\ step_result' = "none")
        => LET p == Head(plan_queue) IN
           /\ p.name \in DOMAIN plan_active'
           /\ LET id == plan_active'[p.name]
                  stored == [id |-> id, name |-> plan'[id].name,
                             description |-> plan'[id].description,
                             step_count |-> plan'[id].step_count]
              IN  valid_plan(target', plan_notification', priority', target_role', stored,
                             cur_team, p, p.type) = Ret(TRUE)]_vars

\* the update loop has just stored a plan with SRT escalation, the type with
\* three levels and two steps in a level
C17_Witness ==
    /\ pc = "update_plans"
    /\ step_op = "create_plan_update"
    /\ step_result = "none"
    /\ plan # <<>>
    /\ plan[Len(plan)].description = DescrWithsrt
    /\ plan[Len(plan)].name \in DOMAIN plan_active
    /\ plan_active[plan[Len(plan)].name] = Len(plan)

\* the stored plan lacks a step level of the derived plan, or a compared
\* field of the plan or of one of its steps is not that of the derived plan
StoredDiffers ==
    LET p == Head(plan_queue)
        id == StoredPlan.id
    IN  \/ StoredPlan.description # p.description
        \/ StoredPlan.step_count # p.step_count
        \/ \E l \in DOMAIN p.all_steps :
              \/ l \notin StoredLevels(id)
              \/ ~IsPermutation(StoredSteps(id, l), CanonicalSteps(p, l))

\* C18: for a stored plan that lacks a step level of the derived plan or
\* differs from it in a compared field, valid_plan returns false and does not
\* raise
C18_MismatchReportedInvalid ==
    (AtStoredPlan /\ StoredDiffers) => (ValidPlanAnswer.exc = "none" /\ ~ValidPlanAnswer.val)

\* C19: no step changes the plan template tables, and no step changes what
\* get_default_plans returns for a team: a derivation gives the same plans
\* whatever derivations, create_plan and valid_plan calls came before it
C19_DerivationPure ==
    [][/\ templates' = templates
       /\ \A team \in PlanTeams : DefaultPlans(team)' = DefaultPlans(team)]_vars

\* the plans of a team have been derived, a plan has been validated and
\* created since, and deriving the plans of the team again gives the plans
\* that are still in the queue
C19_Witness ==
    /\ pc = "update_plans"
    /\ cur_team \in PlanTeams
    /\ step_op = "create_plan_update"
    /\ step_result = "none"
    /\ plan_queue # <<>>
    /\ LET again == DefaultPlans(cur_team).val
       IN  /\ Len(again) > Len(plan_queue)
           /\ plan_queue = SubSeq(again, Len(again) - Len(plan_queue) + 1, Len(again))

\* C20: the plans derived for a team are those of the first category, in the
\* order platform, standby, standby-escalation, scrum, that the team matches,
\* whatever other categories it matches as well
C20_FirstMatchWins ==
    [][(pc = "update_plans" /\ plan_queue = <<>> /\ todo' # todo /\ pc' = "update_plans")
        => LET base == <<Head(cur_team')>>
               category ==
                   IF base \in config.platform_teams THEN "platform"
                   ELSE IF base \in config.standby_teams THEN "standby"
                   ELSE IF base \in config.standby_escalation_teams THEN "standby_escalation"
                   ELSE IF StartsWithScrumPrefix(Head(cur_team')) THEN "scrum"
                   ELSE "none"
               private == {Private24x7, PrivateBusinesshours, PrivateWorkhours}
               expected ==
                   IF category = "standby" THEN {WithmodStandby, WithmodBusinesshours}
                   ELSE IF category = "scrum" THEN
                       IF base \in DOMAIN config.scrumteams
                       THEN private \cup {Withsrt24x7, WithsrtBusinesshours}
                       ELSE private
                   ELSE {}
           IN  {plan_queue'[i].type : i \in DOMAIN plan_queue'} = expected]_vars

\* the plans of a scrum-prefixed team whose base name is a standby team and
\* a standby-escalation team as well have been derived: the two plans of a
\* standby team
C20_Witness ==
    /\ pc = "update_plans"
    /\ cur_team = TeamWorkhours
    /\ StartsWithScrumPrefix(Head(cur_team))
    /\ <<Head(cur_team)>> \notin config.platform_teams
    /\ <<Head(cur_team)>> \in config.standby_teams \cap config.standby_escalation_teams
    /\ Len(plan_queue) = 2
    /\ Head(plan_queue).type = WithmodStandby

\* C21: the plans derived for a team, whatever categories it matches, contain
\* a private plan, and the plans of a team that matches no category are
\* private plans only
C21_PrivatePlansForEveryTeam ==
    [][(pc = "update_plans" /\ plan_queue = <<>> /\ todo' # todo /\ pc' = "update_plans")
        => LET base == <<Head(cur_team')>>
               private == {Private24x7, PrivateBusinesshours, PrivateWorkhours}
               unmatched == /\ base \notin config.platform_teams \cup config.standby_teams
                                          \cup config.standby_escalation_teams
                            /\ ~StartsWithScrumPrefix(Head(cur_team'))
           IN  /\ \E i \in DOMAIN plan_queue' : plan_queue'[i].type \in private
               /\ unmatched => \A i \in DOMAIN plan_queue' : plan_queue'[i].type \in private]_vars

\* C22: for a team of the scrum category that is not in the scrum-team table,
\* or whose space is not in the space to SRT mapping, get_default_plans does
\* not raise and returns the private plans of the team and no other plan
C22_FailedSpaceLookupKeepsPrivatePlans ==
    (pc = "update_plans" /\ plan_queue = <<>>)
    => \A team \in todo :
        LET base == <<Head(team)>>
            scrum == /\ base \notin config.platform_teams \cup config.standby_teams
                                      \cup config.standby_escalation_teams
                     /\ StartsWithScrumPrefix(Head(team))
            lookup_fails == \/ base \notin DOMAIN config.scrumteams
                            \/ config.scrumteams[base].space \notin DOMAIN config.space_to_srt_team
            r == DefaultPlans(team)
        IN  (scrum /\ lookup_fails)
            => /\ r.exc = "none"
               /\ {r.val[i].type : i \in DOMAIN r.val}
                    = {Private24x7, PrivateBusinesshours, PrivateWorkhours}

\* C23: the plans derived for scrum team team1a with space retail mapped to
\* srt-retail include team1a-24x7-withsrt-builtin, whose first level goes to
\* team1a-workhours-builtin with middleware-standby-builtin as standby, whose
\* second level escalates to srt-retail-builtin and whose last level goes to
\* mod-standby-builtin, and the private plans for 24x7 and workhours
C23_ScrumTeamPlans ==
    [][(pc = "update_plans" /\ plan_queue = <<>> /\ todo' # todo /\ pc' = "update_plans"
            /\ cur_team' = TeamWorkhours
            /\ <<"team1a">> \notin config.platform_teams \cup config.standby_teams
                                    \cup config.standby_escalation_teams
            /\ <<"team1a">> \in DOMAIN config.scrumteams
            /\ config.scrumteams[<<"team1a">>].space = "retail"
            /\ "retail" \in DOMAIN config.space_to_srt_team
            /\ config.space_to_srt_team["retail"] = <<"srt", "retail">>)
        => LET names == {plan_queue'[i].name : i \in DOMAIN plan_queue'} IN
           /\ \E i \in DOMAIN plan_queue' :
                LET p == plan_queue'[i] IN
                /\ p.name = <<"team1a", "24x7", "withsrt", "builtin">>
                /\ p.all_steps[1][1].target = <<"team1a", "workhours", "builtin">>
                /\ p.all_steps[1][2].target = <<"middleware", "standby", "builtin">>
                /\ p.all_steps[2][1].target = <<"srt", "retail", "builtin">>
                /\ p.all_steps[2][2].target = <<"middleware", "standby", "builtin">>
                /\ p.all_steps[3][1].target = <<"mod", "standby", "builtin">>
           /\ <<"team1a", "24x7", "private", "builtin">> \in names
           /\ <<"team1a", "workhours", "private", "builtin">> \in names]_vars

\* the plans of team1a have just been derived under that configuration: the
\* plan with SRT escalation is at the head of the queue
C23_Witness ==
    /\ pc = "update_plans"
    /\ cur_team = TeamWorkhours
    /\ "retail" \in DOMAIN config.space_to_srt_team
    /\ Len(plan_queue) = 5
    /\ Head(plan_queue).name = <<"team1a", "24x7", "withsrt", "builtin">>
    /\ Head(plan_queue).all_steps[2][1].target = <<"srt", "retail", "builtin">>

\* C24: the names of the plans derived for a team t of the scrum category
\* that is in the scrum-team table with a mapped space are exactly
\* t-24x7-withsrt-builtin, t-24x7-private-builtin, t-workhours-private-builtin
C24_ScrumTeamPlanNames ==
    [][(pc = "update_plans" /\ plan_queue = <<>> /\ todo' # todo /\ pc' = "update_plans"
            /\ <<Head(cur_team')>> \notin config.platform_teams \cup config.standby_teams
                                          \cup config.standby_escalation_teams
            /\ StartsWithScrumPrefix(Head(cur_team'))
            /\ <<Head(cur_team')>> \in DOMAIN config.scrumteams
            /\ config.scrumteams[<<Head(cur_team')>>].space \in DOMAIN config.space_to_srt_team)
        => LET t == <<Head(cur_team')>> IN
           {plan_queue'[i].name : i \in DOMAIN plan_queue'}
             = { t \o <<"24x7", "withsrt", "builtin">>, t \o <<"24x7", "private", "builtin">>,
                 t \o <<"workhours", "private", "builtin">> }]_vars

\* C25: the names of the plans derived for a team t listed in platform_teams
\* are exactly t-24x7-private-builtin and t-workhours-private-builtin
C25_PlatformTeamPlanNames ==
    [][(pc = "update_plans" /\ plan_queue = <<>> /\ todo' # todo /\ pc' = "update_plans"
            /\ <<Head(cur_team')>> \in config.platform_teams)
        => LET t == <<Head(cur_team')>> IN
           {plan_queue'[i].name : i \in DOMAIN plan_queue'}
             = { t \o <<"24x7", "private", "builtin">>, t \o <<"workhours", "private", "builtin">> }]_vars

\* C26: the names of the plans derived for a team t listed in standby_teams
\* (and not in platform_teams, which is tested first) are exactly
\* t-24x7-private-builtin and t-24x7-withmod-builtin
C26_StandbyTeamPlanNames ==
    [][(pc = "update_plans" /\ plan_queue = <<>> /\ todo' # todo /\ pc' = "update_plans"
            /\ <<Head(cur_team')>> \in config.standby_teams \ config.platform_teams)
        => LET t == <<Head(cur_team')>> IN
           {plan_queue'[i].name : i \in DOMAIN plan_queue'}
             = { t \o <<"24x7", "private", "builtin">>, t \o <<"24x7", "withmod", "builtin">> }]_vars

\* C27: no step of the update loop or of the purge derives plans for a team
\* target that was inactive before the step, and no step removes the row of
\* an inactive team target
C27_InactiveTeamExcluded ==
    [][/\ (pc \in {"update_plans", "purge_teams"} /\ cur_team' # cur_team /\ cur_team' \in TeamNames)
            => target[cur_team'] # "inactive"
       /\ \A t \in TeamNames : target[t] = "inactive" => target'[t] # "absent"]_vars

\* C28: there is one pass at a time.  A pass starts only from the head of the
\* loop, the head of the loop is reached only from the sleep that follows the
\* pass before, which is what counts the passes, and a step of the metrics
\* task moves neither the loop nor the store
C28_NoPassOverlap ==
    [][/\ (pc' = "sync" /\ pc # "sync") => pc = "main_loop"
       /\ (pc' = "main_loop" /\ pc # "main_loop") => pc = "sleep"
       /\ passes' # passes => (pc = "sleep" /\ passes' = passes + 1)
       /\ metrics_task' = "dead" /\ metrics_task = "alive"
            => UNCHANGED <<pc, passes, store, locals, todo, plan_queue, cur_team>>]_vars

\* the second pass is in its update loop and the metrics task has died
\* since the pass started
C28_Witness ==
    /\ passes = 1
    /\ pc = "update_plans"
    /\ cur_team # <<>>
    /\ metrics_task = "dead"

\* C29: parse_destination does not raise on the three documented formats:
\* '@mention' gives the configured room and token and the mention,
\* 'room_id:token' gives that room and token and no mention, and
\* 'room_id:token;@mention' gives that room, that token and that mention
C29_DocumentedDestinations ==
    parsed # NoMessage
    => LET words == {"12341", "a20", "testuser"}
           d == destination
       IN  /\ (Len(d) = 2 /\ d[1] = "@" /\ d[2] \in words)
                => parsed = Ret(<<HipchatConfig.room_id, HipchatConfig.token, d>>)
           /\ (Len(d) = 3 /\ d[1] \in words /\ d[2] = ":" /\ d[3] \in words)
                => parsed = Ret(<< <<d[1]>>, <<d[3]>>, <<>> >>)
           /\ (Len(d) = 6 /\ d[1] \in words /\ d[2] = ":" /\ d[3] \in words /\ d[4] = ";"
                  /\ d[5] = "@" /\ d[6] \in words)
                => parsed = Ret(<< <<d[1]>>, <<d[3]>>, <<d[5], d[6]>> >>)

\* C30: the step of sync_from_oncall that computes the partitions: with
\* upstream the roster users merged with the preset users and local the
\* active local users, users_to_insert is upstream minus local,
\* users_to_update is their intersection and users_to_mark_inactive is local
\* minus upstream; the three sets are pairwise disjoint and cover the union,
\* and no preset user is marked inactive.  The teams are partitioned the same
\* way from the roster's team names and the local team targets.
C30_TruePartition ==
    [][(pc = "sync" /\ pc' = FirstPhase)
       => LET local == {u \in UserNames : u \in DOMAIN target /\ target[u] = "active" /\ u \in user}
              preset == {u.name : u \in config.preset_users}
              upstream_users == DOMAIN oncall_users'
              local_teams == {n \in DOMAIN target : n \notin UserNames /\ target[n] # "absent"}
              upstream_teams == oncall_team_names'
          IN  /\ preset \subseteq upstream_users
              /\ DOMAIN iris_users' = local
              /\ users_to_insert' = upstream_users \ local
              /\ users_to_update' = upstream_users \cap local
              /\ users_to_mark_inactive' = local \ upstream_users
              /\ users_to_insert' \cap users_to_update' = {}
              /\ users_to_insert' \cap users_to_mark_inactive' = {}
              /\ users_to_update' \cap users_to_mark_inactive' = {}
              /\ users_to_insert' \cup users_to_update' \cup users_to_mark_inactive' = upstream_users \cup local
              /\ users_to_mark_inactive' \cap preset = {}
              /\ teams_to_insert' = upstream_teams \ local_teams
              /\ teams_to_update' = upstream_teams \cap local_teams
              /\ teams_to_deactivate' = local_teams \ upstream_teams
              /\ teams_to_insert' \cap teams_to_update' = {}
              /\ teams_to_insert' \cap teams_to_deactivate' = {}
              /\ teams_to_update' \cap teams_to_deactivate' = {}
              /\ teams_to_insert' \cup teams_to_update' \cup teams_to_deactivate'
                    = upstream_teams \cup local_teams]_vars

\* the partitions have just been computed: a preset user is to be inserted,
\* a local user to be updated, and there are teams to update and to deactivate
C30_Witness ==
    /\ pc = "insert_users"
    /\ todo = users_to_insert
    /\ \E u \in config.preset_users : u.name \in users_to_insert
    /\ users_to_update # {}
    /\ teams_to_update # {}
    /\ teams_to_deactivate # {}

\* C31: after update_user completes for a user without a store error, for
\* every known mode the stored destination is the upstream destination when
\* that one is non-empty and there is no stored destination when upstream has
\* none or an empty one; a mode that needed no operation is stored as before
C31_UpdateUserReconcilesContacts ==
    [][(pc = "update_users" /\ step_op' = "update_user" /\ step_result' = "ok")
       => \A username \in todo \ todo' :
          \A mode \in Modes :
            LET wanted == oncall_users[username]
                before == target_contact[username]
                after == target_contact'[username]
                has_upstream == mode \in DOMAIN wanted /\ wanted[mode] # None /\ wanted[mode] # ""
            IN  /\ has_upstream => (mode \in DOMAIN after /\ after[mode] = wanted[mode])
                /\ ~has_upstream => mode \notin DOMAIN after
                /\ (has_upstream /\ mode \in DOMAIN before /\ before[mode] = wanted[mode])
                      => after[mode] = before[mode]]_vars

\* update_user has just completed for a user of whom a stored destination
\* was deleted because upstream has an empty one
C31_Witness ==
    /\ pc = "update_users"
    /\ step_op = "update_user"
    /\ step_result = "ok"
    /\ \E username \in users_to_update \ todo :
        \E mode \in DOMAIN iris_users[username] :
            /\ mode \notin DOMAIN target_contact[username]
            /\ mode \in DOMAIN oncall_users[username]
            /\ oncall_users[username][mode] = ""

\* C32: whatever create_plan calls and deactivations have happened, every
\* plan name has one active pointer at most and it refers to a plan row of
\* that name; and the step of a successful create_plan leaves the pointer of
\* its name on the row that call has written, the pointers of the other
\* names as they were
C32_OneActivePointerOnNewestRow ==
    [][/\ \A n \in DOMAIN plan_active' :
            /\ plan_active'[n] \in 1..Len(plan')
            /\ plan'[plan_active'[n]].name = n
       /\ (step_op' \in {"create_plan_new", "create_plan_update"} /\ step_result' = "none"
           /\ plan_queue # <<>>)
          => LET name == Head(plan_queue).name IN
             /\ Len(plan') = Len(plan) + 1
             /\ plan'[Len(plan')].name = name
             /\ name \in DOMAIN plan_active'
             /\ plan_active'[name] = Len(plan')
             /\ \A n \in DOMAIN plan_active' \ {name} :
                    n \in DOMAIN plan_active /\ plan_active'[n] = plan_active[n]]_vars

\* create_plan has just succeeded for a name of which an older row exists:
\* the pointer is on the newest row
C32_Witness ==
    /\ step_op = "create_plan_update"
    /\ step_result = "none"
    /\ \E n \in DOMAIN plan_active :
        /\ plan_active[n] = Len(plan)
        /\ \E i \in 1..(Len(plan) - 1) : plan[i].name = n

\* C33: same_steps reports two lists of steps equal exactly when one is a
\* permutation of the other, whatever their length
C33_OrderInsensitiveAnySize ==
    same.exc = "none" => (same.val <=> IsPermutation(list_of_steps, steps_found))

\* C39: the four results of a DictDiffer partition the union of the keys of
\* the two dicts: added are the keys of the current dict only, removed the
\* keys of the past dict only, changed the shared keys whose values differ,
\* unchanged the shared keys whose values are equal, and the four sets are
\* pairwise disjoint
C39_DictDifferPartitions ==
    differ.exc = "none"
    => LET d == differ.val
           cur == DOMAIN current_dict
           past == DOMAIN past_dict
       IN  /\ d.added = cur \ past
           /\ d.removed = past \ cur
           /\ d.changed = {k \in cur \cap past : current_dict[k] # past_dict[k]}
           /\ d.unchanged = {k \in cur \cap past : current_dict[k] = past_dict[k]}
           /\ d.added \cup d.removed \cup d.changed \cup d.unchanged = cur \cup past
           /\ d.added \cap d.removed = {}
           /\ d.added \cap d.changed = {}
           /\ d.added \cap d.unchanged = {}
           /\ d.removed \cap d.changed = {}
           /\ d.removed \cap d.unchanged = {}
           /\ d.changed \cap d.unchanged = {}

\* a DictDiffer has answered for two dicts with a key added, a key removed
\* and a shared key whose value has changed
C39_Witness ==
    /\ differ.exc = "none"
    /\ differ.val.added # {}
    /\ differ.val.removed # {}
    /\ differ.val.changed # {}

\* C34: the plans derived for a team are named after its base name, which is
\* the team name without the built-in suffix and without the time period
\* before it, whole also when it has a hyphen of its own: each plan name is
\* the base name followed by a time period; and every time-period variant of
\* the team derives the same plans
C34_BaseTeamNameKeptWhole ==
    [][(pc = "update_plans" /\ plan_queue = <<>> /\ todo' # todo /\ pc' = "update_plans")
       => LET team == cur_team'
              periods == Range(timeperiods)
              unsuffixed == IF team[Len(team)] \in Range(immutable_suffix)
                            THEN SubSeq(team, 1, Len(team) - 1) ELSE team
              base == IF Len(unsuffixed) > 1 /\ unsuffixed[Len(unsuffixed)] \in periods
                      THEN SubSeq(unsuffixed, 1, Len(unsuffixed) - 1) ELSE unsuffixed
          IN  /\ \A i \in DOMAIN plan_queue' :
                    LET name == plan_queue'[i].name IN
                    /\ Len(name) > Len(base)
                    /\ SubSeq(name, 1, Len(base)) = base
                    /\ name[Len(base) + 1] \in periods
              /\ \A h \in periods :
                    LET variant == DefaultPlans(base \o <<h>> \o immutable_suffix) IN
                    variant.exc = "none" /\ variant.val = plan_queue']_vars

\* C35: against a roster that gives the same answers, with the same
\* configuration and a store that has answered no statement with an error
\* and answers the DELETE of prune_target as it did before, no step of a
\* pass that follows a completed pass calls create_plan, and none changes
\* the store
C35_SecondPassChangesNothing ==
    [][(passes >= 1 /\ pc \in Phases /\ ~store_errors'
        /\ ~(\E n \in DOMAIN target : target[n] = "inactive" /\ target'[n] = "absent"))
       => /\ step_op' \notin {"create_plan_new", "create_plan_update"}
          /\ store' = store]_vars

\* C36: no step of a pass removes the active pointer of a plan that is
\* derived for a team of the roster's team names, and when a pass ends every
\* plan derived for such a team of which a row exists has an active pointer
C36_PresentTeamPlansStayActive ==
    [][LET derived == {n \in DOMAIN plan_active \cup {plan[i].name : i \in DOMAIN plan} :
                         \E team \in oncall_team_names :
                            /\ DefaultPlans(team).exc = "none"
                            /\ \E i \in DOMAIN DefaultPlans(team).val : DefaultPlans(team).val[i].name = n}
       IN  /\ pc \in Phases
              => \A n \in derived : n \in DOMAIN plan_active => n \in DOMAIN plan_active'
           /\ (pc = "purge_teams" /\ pc' = "sleep")
              => \A n \in derived : n \in DOMAIN plan_active]_vars

\* C37: when a pass without --noop ends in a process whose store has
\* answered no statement with an error, every team of the roster's team
\* names is an active team target
C37_UpstreamTeamsActive ==
    [][(pc = "purge_teams" /\ pc' = "sleep" /\ ~NOOP /\ ~store_errors)
       => \A team \in oncall_team_names : TargetStatus(target, team) = "active"]_vars

\* C38: insert_user for a user whose target is there but inactive, the store
\* answering no statement with an error, leaves the target active, and
\* stored for it every destination of the roster that is not empty and whose
\* mode is known; and when the pass ends that is still so for every user that
\* was to be inserted
C38_InactiveUserReinserted ==
    [][LET stored(tc, username) ==
               \A mode \in Modes :
                  (mode \in DOMAIN oncall_users[username] /\ oncall_users[username][mode] \notin {None, ""})
                  => (mode \in DOMAIN tc[username] /\ tc[username][mode] = oncall_users[username][mode])
       IN  /\ (pc = "insert_users" /\ step_op' = "insert_user" /\ step_result' = "ok")
              => \A username \in todo \ todo' :
                    target[username] = "inactive"
                    => (target'[username] = "active" /\ stored(target_contact', username))
           /\ (pc \in Phases /\ pc' = "sleep" /\ ~store_errors)
              => \A username \in users_to_insert :
                    target[username] = "active" /\ stored(target_contact, username)]_vars

\* insert_user has just succeeded for a user who was there before: the
\* target is active, the destination of the roster is stored, and so is a
\* destination of a mode that the roster does not have for the user
C38_Witness ==
    /\ pc = "insert_users"
    /\ step_op = "insert_user"
    /\ step_result = "ok"
    /\ \E username \in users_to_insert \ todo :
        /\ target[username] = "active"
        /\ \E mode \in DOMAIN target_contact[username] :
              target_contact[username][mode] = oncall_users[username][mode]
        /\ \E mode \in DOMAIN target_contact[username] : mode \notin DOMAIN oncall_users[username]

====
